---------------------------- MODULE Spec2Model ----------------------------
(***************************************************************************)
(* A model of two parts of SuiteSparse:GraphBLAS:                          *)
(*                                                                         *)
(*   - GB_AxB_saxpy5_jit (Source/GB_AxB_saxpy5_jit.c): the JIT dispatch of *)
(*     the saxpy5 kernel: encode, look up the kernel cache, load or        *)
(*     compile the artifact, register it, call it.  Specification SpecJit. *)
(*   - GB_selector (Source/GB_selector.c): the selection of entries from a *)
(*     sparse or hypersparse matrix: the iso path, the column path and the *)
(*     general two-phase path.  Specification SpecSel.                     *)
(***************************************************************************)
EXTENDS Integers, Sequences, FiniteSets, TLC

VARIABLES
    \* ---- GB_AxB_saxpy5_jit ----
    cache,      \* the kernel cache: key -> sequence of registered entries
    lib,        \* the kernel folder: kernel name -> lib*.so artifact or NoFile
    srcfile,    \* the kernel folder: kernel name -> state of the *.c file
    th,         \* per thread: the position and locals of its dispatch
    ndispatch,  \* number of dispatches started so far
    nseq,       \* problem -> number of compile-or-load sequences started
    nseqreg,    \* problem -> those started by a dispatch that began after
                \*            the kernel was registered in the cache
    \* ---- GB_selector ----
    sel,        \* the state of one call of GB_selector
    \* ---- GB_encodify_mxm, GB_macrofy_name ----
    enc,        \* per request: what is encoded, and the encoding, hash, kernel
                \*              name and artifact path made of it
    \* ---- GB_AxB_dot3_cuda_branch ----
    cuda,       \* the state of one call of GB_AxB_dot3_cuda_branch
    \* ---- GB_transpose ----
    tr,         \* the state of one call of GB_transpose
    \* ---- GB_emult_02_template ----
    em,         \* the state of one run of the emult method 2 kernel
    \* ---- GB_subassign_method14b ----
    sub         \* the state of one call of GB_subassign_method14b

jitvars == <<cache, lib, srcfile, th, ndispatch, nseq, nseqreg>>
selvars == <<sel>>
encvars == <<enc>>
cudavars == <<cuda>>
trvars == <<tr>>
emvars == <<em>>
subvars == <<sub>>
vars == <<cache, lib, srcfile, th, ndispatch, nseq, nseqreg, sel, enc,
          cuda, tr, em, sub>>

NULL == "NULL"

\* The state of a function that is not called in a run.
CudaIdle == [pc |-> "off"]
TrIdle == [pc |-> "off"]
EmIdle == [pc |-> "off"]
SubIdle == [pc |-> "off"]

(***************************************************************************)
(*                          GB_AxB_saxpy5_jit                              *)
(***************************************************************************)

\* Number of threads that dispatch, and of dispatches in one run.
NThreads == 1
MaxDispatch == 3

Threads == 1..NThreads

\* The hash GB_encodify_mxm returns for a problem that cannot be jitted: all
\* ones, at the width of the model's integers.
UINT64_MAX == 2147483647

\* The logical problems dispatched: a fully built-in semiring and types
\* (suffix_len = 0), a semiring with user-defined operators or types
\* (suffix_len > 0), and one that the encoder refuses.
Problems == {"builtin", "user", "nojit"}

\* GB_encodify_mxm: the encoding, suffix and hash of a problem.
GB_encodify_mxm(p) ==
    CASE p = "builtin" -> [hash |-> 11, code |-> 1, suffix |-> "", suffix_len |-> 0]
      [] p = "user"    -> [hash |-> 22, code |-> 2, suffix |-> "my_semiring", suffix_len |-> 11]
      [] OTHER         -> [hash |-> UINT64_MAX, code |-> 0, suffix |-> "", suffix_len |-> 0]

\* The key of the kernel cache: (hash, encoding, suffix).
Key(e) == <<e.hash, e.code, e.suffix>>
Keys == {Key(GB_encodify_mxm(p)) : p \in Problems \ {"nojit"}}

\* GB_macrofy_name: the kernel name, from the encoding and the suffix.
GB_macrofy_name(e) == <<"GB_jit", "AxB_saxpy5", e.code, e.suffix>>
Kernels == {GB_macrofy_name(GB_encodify_mxm(p)) : p \in Problems \ {"nojit"}}

\* The definitions of the current request: monoid operator, multiply
\* operator, type of C, type of A, type of B (indices 0 to 4).
ReqDefn == [k \in 0..4 |-> "cur"]

\* A definition vector that differs from the request's at index j (none for
\* j = -1).
DefnOldAt(j) == [k \in 0..4 |-> IF k = j THEN "old" ELSE "cur"]

\* What a lib*.so artifact holds: the version it was compiled with, the
\* definitions it reports, whether its monoid identity/terminal match the
\* request, whether it exports GB_jit_query_defn and GB_jit_kernel.
Artifact(ver, defn, idterm, query, kernel) ==
    [ver |-> ver, defn |-> defn, idterm |-> idterm, query |-> query, kernel |-> kernel]

\* No lib*.so file of that name in the kernel folder.
NoFile == Artifact("none", ReqDefn, FALSE, FALSE, FALSE)

\* No function pointer.
NullFn == NoFile

\* The artifact a successful compile of the request writes.
FreshArtifact(builtin) == Artifact("cur", ReqDefn, TRUE, ~builtin, TRUE)

\* Artifacts left in the kernel folder by earlier processes: a valid one, or
\* one with a single defect.
OldArtifacts ==
    {Artifact("cur", ReqDefn, TRUE, TRUE, TRUE),
     Artifact("old", ReqDefn, TRUE, TRUE, TRUE),
     Artifact("cur", ReqDefn, FALSE, TRUE, TRUE),
     Artifact("cur", ReqDefn, TRUE, FALSE, TRUE),
     Artifact("cur", ReqDefn, TRUE, TRUE, FALSE)}
    \cup {Artifact("cur", DefnOldAt(j), TRUE, TRUE, TRUE) : j \in 0..4}

\* GB_jitifyer_match_version: the artifact was compiled by this version.
GB_jitifyer_match_version(h) == h.ver = "cur"

\* dlsym (dl_handle, "GB_jit_query_defn"): NULL when the symbol is missing.
dlsym_query(h) == [null |-> ~h.query, defn |-> h.defn]

\* GB_jitifyer_match_defn: the definition the artifact reports at index k
\* equals the request's; a missing query function matches nothing.
GB_jitifyer_match_defn(dl_query, k, defn) ==
    IF dl_query.null THEN FALSE ELSE dl_query.defn[k] = defn

\* GB_jitifyer_match_idterm: the monoid identity and terminal values match.
GB_jitifyer_match_idterm(h) == h.idterm

\* The staleness test of an artifact that was found on disk.
NeedToCompileMutant(h) ==
    LET dl_query == dlsym_query(h) IN
        \/ ~GB_jitifyer_match_version(h)
        \/ ~GB_jitifyer_match_defn(dl_query, 0, ReqDefn[0])
        \/ ~GB_jitifyer_match_defn(dl_query, 1, ReqDefn[1])
        \/ ~GB_jitifyer_match_defn(dl_query, 2, ReqDefn[2])
        \/ ~GB_jitifyer_match_defn(dl_query, 3, ReqDefn[3])
        \/ ~GB_jitifyer_match_idterm(h)

NeedToCompile(h) ==
    LET dl_query == dlsym_query(h) IN
        \/ ~GB_jitifyer_match_version(h)
        \/ ~GB_jitifyer_match_defn(dl_query, 0, ReqDefn[0])
        \/ ~GB_jitifyer_match_defn(dl_query, 1, ReqDefn[1])
        \/ ~GB_jitifyer_match_defn(dl_query, 2, ReqDefn[2])
        \/ ~GB_jitifyer_match_defn(dl_query, 3, ReqDefn[3])
        \/ ~GB_jitifyer_match_defn(dl_query, 4, ReqDefn[4])
        \/ ~GB_jitifyer_match_idterm(h)

\* GB_jitifyer_lookup: the function pointer registered first for the key, or
\* none.
GB_jitifyer_lookup(key) ==
    IF key \in DOMAIN cache /\ Len(cache[key]) > 0 THEN cache[key][1] ELSE NullFn

\* Line 68: the kernel was not found in the cache.
CacheMissMutant(f) == TRUE

CacheMiss(f) == f = NullFn

\* A thread that is not dispatching.
Idle ==
    [pc |-> "idle", p |-> "none", handles |-> <<>>, dl_handle |-> 0,
     dl_function |-> NullFn, need_to_compile |-> FALSE, info |-> "none",
     hit |-> FALSE, reg0 |-> FALSE, fs |-> FALSE, found |-> FALSE,
     stale |-> FALSE,
     compiled |-> FALSE, called |-> FALSE, fail |-> "none",
     torn |-> FALSE]

\* A library handle of the dispatch: the artifact it loaded, how often it
\* was closed, whether it was registered in the kernel cache.
Handle(art) == [art |-> art, closes |-> 0, registered |-> FALSE]

\* dlopen (lib_filename): a new handle on the artifact, or NULL.
dlopen(t, k) ==
    IF lib[k] = NoFile
    THEN [th[t] EXCEPT !.dl_handle = 0, !.fs = TRUE]
    ELSE [th[t] EXCEPT !.handles = Append(@, Handle(lib[k])),
                       !.dl_handle = Len(th[t].handles) + 1, !.fs = TRUE]

\* dlclose (dl_handle)
dlcloseMutant(s) == s

dlclose(s) == [s EXCEPT !.handles[s.dl_handle].closes = @ + 1]

\* return (info)
Return(s, info, fail) == [s EXCEPT !.pc = "done", !.info = info, !.fail = fail]

Enc(t) == GB_encodify_mxm(th[t].p)
Kname(t) == GB_macrofy_name(Enc(t))
Builtin(t) == Enc(t).suffix_len = 0

\* Lines 53-68: encode the problem and look it up in the kernel cache.
JitInfoNotJittableMutant == "GrB_PANIC"

JitInfoNotJittable == "GrB_NO_VALUE"

Dispatch(t, p) ==
    /\ th[t].pc = "idle"
    /\ ndispatch < MaxDispatch
    /\ ndispatch' = ndispatch + 1
    /\ LET e == GB_encodify_mxm(p)
           s == [Idle EXCEPT !.p = p]
       IN  IF e.hash = UINT64_MAX
           THEN th' = [th EXCEPT ![t] = Return(s, JitInfoNotJittable, "nojit")]
           ELSE LET f == GB_jitifyer_lookup(Key(e))
                    r == Key(e) \in DOMAIN cache /\ Len(cache[Key(e)]) > 0
                IN  th' = [th EXCEPT ![t] =
                        [s EXCEPT !.dl_function = f, !.hit = (f # NullFn),
                                  !.reg0 = r,
                                  !.pc = IF CacheMiss(f) THEN "dlopen" ELSE "call"]]
    /\ UNCHANGED <<cache, lib, srcfile, nseq, nseqreg, sel, enc,
                 cuda, tr, em, sub>>

\* Lines 97-120: try to load the artifact; if it is there and the request is
\* not built-in, check its version and definitions and close it when stale.
LoadExisting(t) ==
    /\ th[t].pc = "dlopen"
    /\ LET s == dlopen(t, Kname(t))
           missing == (s.dl_handle = 0)
           check == ~missing /\ ~Builtin(t)
           ntc == IF check THEN NeedToCompile(s.handles[s.dl_handle].art)
                  ELSE missing
           s2 == IF check /\ ntc THEN [dlclose(s) EXCEPT !.stale = TRUE] ELSE s
       IN  th' = [th EXCEPT ![t] =
                [s2 EXCEPT !.need_to_compile = ntc, !.found = ~missing,
                           !.pc = IF ntc THEN "fopen" ELSE "dlsym"]]
    /\ nseq' = [nseq EXCEPT ![th[t].p] = @ + 1]
    /\ nseqreg' = [nseqreg EXCEPT ![th[t].p] = IF th[t].reg0 THEN @ + 1 ELSE @]
    /\ UNCHANGED <<cache, lib, srcfile, ndispatch, sel, enc,
                 cuda, tr, em, sub>>

\* Lines 138-144: open the source file for writing.
JitInfoSourceFailure == "GrB_PANIC"

OpenSource(t) ==
    /\ th[t].pc = "fopen"
    /\ \/ /\ th' = [th EXCEPT ![t] =
                  Return([th[t] EXCEPT !.fs = TRUE], JitInfoSourceFailure, "fopen")]
          /\ UNCHANGED srcfile
       \/ /\ th' = [th EXCEPT ![t].pc = "write", ![t].fs = TRUE]
          /\ srcfile' = [srcfile EXCEPT ![Kname(t)] = "partial"]
    /\ UNCHANGED <<cache, lib, ndispatch, nseq, nseqreg, sel, enc,
                 cuda, tr, em, sub>>

\* Lines 145-169: write the kernel source and close the file.
WriteSource(t) ==
    /\ th[t].pc = "write"
    /\ srcfile' = [srcfile EXCEPT ![Kname(t)] = "complete"]
    /\ th' = [th EXCEPT ![t].pc = "compile"]
    /\ UNCHANGED <<cache, lib, ndispatch, nseq, nseqreg, sel, enc,
                 cuda, tr, em, sub>>

\* What the compiler makes of a source file that is being rewritten while
\* it reads it: an artifact without the query and kernel functions.
TornArtifact == Artifact("cur", ReqDefn, FALSE, FALSE, FALSE)

\* Line 175: GB_jitifyer_compile: the external compiler reads the source
\* file of the kernel; it either writes the artifact or fails and leaves the
\* kernel folder as it was.  The source file was opened with mode "w" under
\* its final name (line 138), so the compiler reads a truncated file when
\* another dispatch of the same kernel is writing it.
Compile(t) ==
    /\ th[t].pc = "compile"
    /\ LET torn == srcfile[Kname(t)] # "complete"
       IN  /\ \/ lib' = [lib EXCEPT ![Kname(t)] =
                            IF torn THEN TornArtifact ELSE FreshArtifact(Builtin(t))]
              \/ UNCHANGED lib
           /\ th' = [th EXCEPT ![t].pc = "reload", ![t].compiled = TRUE,
                               ![t].torn = torn]
    /\ UNCHANGED <<cache, srcfile, ndispatch, nseq, nseqreg, sel, enc,
                 cuda, tr, em, sub>>

\* Lines 176-182: load the compiled artifact.
JitInfoLoadFailure == "GrB_PANIC"

Reload(t) ==
    /\ th[t].pc = "reload"
    /\ LET s == dlopen(t, Kname(t))
       IN  th' = [th EXCEPT ![t] =
                IF s.dl_handle = 0 THEN Return(s, JitInfoLoadFailure, "dlopen")
                ELSE [s EXCEPT !.pc = "dlsym"]]
    /\ UNCHANGED <<cache, lib, srcfile, ndispatch, nseq, nseqreg, sel, enc,
                 cuda, tr, em, sub>>

\* Lines 190-197: get the kernel's entry point.
JitInfoSymbolFailure == "GrB_PANIC"

GetKernelInsertsMutant(t) ==
    /\ th[t].pc = "dlsym"
    /\ LET h == th[t].handles[th[t].dl_handle]
       IN  /\ th' = [th EXCEPT ![t] =
                    IF ~h.art.kernel
                    THEN Return(dlclose(th[t]), "GrB_PANIC", "dlsym")
                    ELSE [th[t] EXCEPT !.dl_function = h.art, !.pc = "insert"]]
           /\ cache' = IF ~h.art.kernel
                       THEN [cache EXCEPT ![Key(Enc(t))] = Append(@, h.art)]
                       ELSE cache
    /\ UNCHANGED <<lib, srcfile, ndispatch, nseq, nseqreg, sel, enc,
                 cuda, tr, em, sub>>

GetKernel(t) ==
    /\ th[t].pc = "dlsym"
    /\ LET h == th[t].handles[th[t].dl_handle]
       IN  th' = [th EXCEPT ![t] =
                IF ~h.art.kernel
                THEN Return(dlclose(th[t]), JitInfoSymbolFailure, "dlsym")
                ELSE [th[t] EXCEPT !.dl_function = h.art, !.pc = "insert"]]
    /\ UNCHANGED <<cache, lib, srcfile, ndispatch, nseq, nseqreg, sel, enc,
                 cuda, tr, em, sub>>

\* GB_jitifyer_insert: append the entry to those of the key; entries are
\* never removed or replaced.
GB_jitifyer_insert(key, f) ==
    IF key \in DOMAIN cache
    THEN [cache EXCEPT ![key] = Append(@, f)]
    ELSE cache

\* Lines 200-206: register the kernel in the cache.
InsertClosesMutant(t) ==
    /\ th[t].pc = "insert"
    /\ cache' = GB_jitifyer_insert(Key(Enc(t)), th[t].dl_function)
    /\ th' = [th EXCEPT ![t] =
            [dlclose(th[t]) EXCEPT !.handles[th[t].dl_handle].registered = TRUE,
                                   !.pc = "call"]]
    /\ UNCHANGED <<lib, srcfile, ndispatch, nseq, nseqreg, sel, enc,
                 cuda, tr, em, sub>>

InsertFailureCallsMutant(t) ==
    /\ th[t].pc = "insert"
    /\ \/ /\ cache' = GB_jitifyer_insert(Key(Enc(t)), th[t].dl_function)
          /\ th' = [th EXCEPT ![t].handles[th[t].dl_handle].registered = TRUE,
                              ![t].pc = "call"]
       \/ /\ UNCHANGED cache
          /\ th' = [th EXCEPT ![t].pc = "call"]
    /\ UNCHANGED <<lib, srcfile, ndispatch, nseq, nseqreg, sel, enc,
                 cuda, tr, em, sub>>

InsertLeaksMutant(t) ==
    /\ th[t].pc = "insert"
    /\ \/ /\ cache' = GB_jitifyer_insert(Key(Enc(t)), th[t].dl_function)
          /\ th' = [th EXCEPT ![t].handles[th[t].dl_handle].registered = TRUE,
                              ![t].pc = "call"]
       \/ /\ UNCHANGED cache
          /\ th' = [th EXCEPT ![t] = Return(th[t], "GrB_OUT_OF_MEMORY", "insert")]
    /\ UNCHANGED <<lib, srcfile, ndispatch, nseq, nseqreg, sel, enc,
                 cuda, tr, em, sub>>

Insert(t) ==
    /\ th[t].pc = "insert"
    /\ \/ /\ cache' = GB_jitifyer_insert(Key(Enc(t)), th[t].dl_function)
          /\ th' = [th EXCEPT ![t].handles[th[t].dl_handle].registered = TRUE,
                              ![t].pc = "call"]
       \/ /\ UNCHANGED cache
          /\ th' = [th EXCEPT ![t] =
                  Return(dlclose(th[t]), "GrB_OUT_OF_MEMORY", "insert")]
    /\ UNCHANGED <<lib, srcfile, ndispatch, nseq, nseqreg, sel, enc,
                 cuda, tr, em, sub>>

\* Lines 213-215: call the kernel and return its result.
CallKernel(t) ==
    /\ th[t].pc = "call"
    /\ th' = [th EXCEPT ![t] =
            Return([th[t] EXCEPT !.called = TRUE], "GrB_SUCCESS", "none")]
    /\ UNCHANGED <<cache, lib, srcfile, ndispatch, nseq, nseqreg, sel, enc,
                 cuda, tr, em, sub>>

\* The caller takes the result; the thread may dispatch again.
Finish(t) ==
    /\ th[t].pc = "done"
    /\ th' = [th EXCEPT ![t] = Idle]
    /\ UNCHANGED <<cache, lib, srcfile, ndispatch, nseq, nseqreg, sel, enc,
                 cuda, tr, em, sub>>

(***************************************************************************)
(*           GB_encodify_mxm, GB_macrofy_name and the artifact path        *)
(***************************************************************************)

\* Two requests are encoded, to be compared.
NEncCalls == 2
EncCalls == 1..NEncCalls

\* The addresses at which the objects of a request (the semiring, A, B and
\* the type of C) may lie.
NAddresses == 2
Addresses == 1..NAddresses

\* A request for a saxpy5 kernel (lines 53-56): the logical problem is the
\* semiring with its types, flipxy and the formats of A (bitmap or full) and
\* B (sparse or hypersparse); addr is where its objects lie in memory.
EncRequests ==
    [semiring : Problems, flipxy : BOOLEAN,
     A_sparsity : {"bitmap", "full"}, B_sparsity : {"sparse", "hyper"},
     addr : Addresses]

\* The kernel folder.
GB_jitifyer_libfolder == "~/.SuiteSparse/GraphBLAS"

\* GB_enumify_mxm: the logical problem packed into the bits of the code.
GB_enumify_mxm(r) ==
    LET scode == GB_encodify_mxm(r.semiring).code
        flip == IF r.flipxy THEN 1 ELSE 0
        asp == IF r.A_sparsity = "full" THEN 1 ELSE 0
        bsp == IF r.B_sparsity = "hyper" THEN 1 ELSE 0
    IN  ((scode * 2 + flip) * 2 + asp) * 2 + bsp

\* The hash of the encoding and the suffix, never UINT64_MAX.
GB_jitifyer_hash_encoding(code, suffix_len) ==
    (code * 8191 + suffix_len * 127 + 1) % UINT64_MAX

\* GB_encodify_mxm on a request: the encoding, the suffix and the hash; the
\* hash is UINT64_MAX if the semiring cannot be jitted.
GB_encodify_requestMutant(r) ==
    LET e == GB_encodify_mxm(r.semiring)
        code == ((e.code * 2 + (IF r.flipxy THEN 1 ELSE 0)) * 2
                    + (IF r.A_sparsity = "full" THEN 1 ELSE 0)) * 2
                    + (IF r.B_sparsity = "hyper" THEN 1 ELSE 0)
    IN  [code |-> code, suffix |-> e.suffix, suffix_len |-> e.suffix_len,
         hash |-> IF e.hash = 2147483647 THEN 2147483647
                  ELSE (code * 8191 + e.suffix_len * 127 + 1 + r.addr) % 2147483647]

GB_encodify_request(r) ==
    LET e == GB_encodify_mxm(r.semiring)
        code == GB_enumify_mxm(r)
    IN  [code |-> code, suffix |-> e.suffix, suffix_len |-> e.suffix_len,
         hash |-> IF e.hash = UINT64_MAX THEN UINT64_MAX
                  ELSE GB_jitifyer_hash_encoding(code, e.suffix_len)]

\* GB_jit_encoding encoding: a local variable, not initialized; what it
\* holds before the encoder fills it depends on the request before it.
StackContent(r) ==
    [code |-> 0 - r.addr, suffix |-> "", suffix_len |-> 0 - r.addr, hash |-> 0 - r.addr]

\* The state of a request on entry, and of no request.
EncEntry(r) ==
    [pc |-> "encodify", req |-> r, encoding |-> StackContent(r),
     kernel_name |-> <<>>, lib_filename |-> <<>>]

EncIdle == [c \in EncCalls |-> [pc |-> "off"]]

\* Lines 53-61: encode the request; give up if it cannot be jitted.
Encodify(c) ==
    /\ enc[c].pc = "encodify"
    /\ LET e == GB_encodify_request(enc[c].req)
       IN  enc' = [enc EXCEPT ![c].encoding = e,
                              ![c].pc = IF e.hash = UINT64_MAX THEN "done" ELSE "name"]
    /\ UNCHANGED <<jitvars, selvars, cudavars, trvars, emvars, subvars>>

\* Lines 76-78: name the kernel.
MacrofyName(c) ==
    /\ enc[c].pc = "name"
    /\ enc' = [enc EXCEPT ![c].kernel_name = GB_macrofy_name(enc[c].encoding),
                          ![c].pc = "path"]
    /\ UNCHANGED <<jitvars, selvars, cudavars, trvars, emvars, subvars>>

\* Lines 83-87: the file name of the artifact in the kernel folder.
LibFilename(c) ==
    /\ enc[c].pc = "path"
    /\ enc' = [enc EXCEPT ![c].lib_filename =
                    <<GB_jitifyer_libfolder, "/lib", enc[c].kernel_name, ".so">>,
                          ![c].pc = "done"]
    /\ UNCHANGED <<jitvars, selvars, cudavars, trvars, emvars, subvars>>

(***************************************************************************)
(*                              GB_selector                                *)
(***************************************************************************)

\* Dimensions of the matrices selected from, and the most tasks a matrix is
\* sliced into.
MaxVdim == 2
MaxVlen == 2
MaxTasks == 2

\* C arrays are functions on 0..n-1.
Arr(s) == [k \in 0..(Len(s) - 1) |-> s[k + 1]]
ALen(a) == Cardinality(DOMAIN a)
Fill(n, v) == [k \in 0..(n - 1) |-> v]
IMAX(a, b) == IF a >= b THEN a ELSE b
IMIN(a, b) == IF a <= b THEN a ELSE b

\* The content of memory that was allocated and not written.
Uninit == -32769

\* GB_cast_scalar to int16_t: the low 16 bits, as a signed value.
CastInt16(v) == ((v + 32768) % 65536) - 32768

\* GB_FLIP (i): the row index of a zombie.
GB_FLIP(i) == (0 - i) - 2

\* The opcodes of the index-unary operators.
PositionalOps == {"TRIL", "TRIU", "DIAG", "OFFDIAG", "ROWINDEX", "ROWLE", "ROWGT"}
ColumnOps == {"COLINDEX", "COLLE", "COLGT"}
ValueOps == {"VALUENE", "VALUEEQ", "VALUEGT", "VALUEGE", "VALUELT", "VALUELE"}
Opcodes == PositionalOps \cup ColumnOps \cup ValueOps \cup {"NONZOMBIE", "USER"}

\* GB_IS_INDEXUNARYOP_CODE_POSITIONAL
op_is_positional(opcode) == opcode \in PositionalOps \cup ColumnOps

\* The value of the entry at row i, column j of the matrices of the model.
ValueAt(i, j) == i - j

\* The entries of a vector, as (row, value) pairs, in storage order.
RECURSIVE SeqOfSet(_)
SeqOfSet(S) ==
    IF S = {} THEN <<>>
    ELSE LET m == CHOOSE x \in S : \A y \in S : x <= y
         IN  <<m>> \o SeqOfSet(S \ {m})

Reverse(s) == [k \in 1..Len(s) |-> s[Len(s) + 1 - k]]

RECURSIVE Flatten(_)
Flatten(ss) == IF ss = <<>> THEN <<>> ELSE Head(ss) \o Flatten(Tail(ss))

RECURSIVE Offsets(_, _)
Offsets(ss, from) ==
    IF ss = <<>> THEN <<from>>
    ELSE <<from>> \o Offsets(Tail(ss), from + Len(Head(ss)))

\* A sparse or hypersparse matrix by column: vecs lists the vectors held
\* (all of 0..vdim-1 unless hyper), rows[j] the rows of vector j in storage
\* order, zombie the positions whose entry is a zombie.
MkMatrix(vlen, vdim, is_hyper, vecs, rows, iso, jumbled, zombie, shallow) ==
    LET perVec == [k \in 1..Len(vecs) |->
                     [q \in 1..Len(rows[vecs[k]]) |-> <<vecs[k], rows[vecs[k]][q]>>]]
        ents == Flatten(perVec)
        anz == Len(ents)
    IN  [vlen |-> vlen, vdim |-> vdim, is_hyper |-> is_hyper,
         nvec |-> Len(vecs), plen |-> IMAX(1, Len(vecs)),
         h |-> IF is_hyper THEN Arr(vecs) ELSE <<>>,
         p |-> Arr(Offsets(perVec, 0)),
         i |-> [q \in 0..(anz - 1) |->
                  IF q \in zombie THEN GB_FLIP(ents[q + 1][2]) ELSE ents[q + 1][2]],
         x |-> IF iso THEN Fill(1, 1)
               ELSE [q \in 0..(anz - 1) |-> ValueAt(ents[q + 1][2], ents[q + 1][1])],
         iso |-> iso, jumbled |-> jumbled, nvals |-> anz,
         nzombies |-> Cardinality(zombie \cap (0..(anz - 1))),
         p_shallow |-> shallow, h_shallow |-> shallow,
         i_shallow |-> shallow, x_shallow |-> shallow,
         kind |-> "sparse"]

\* A bitmap matrix: b[q] says whether the entry at row q % vlen of vector
\* q \div vlen is present; Ap, Ah and Ai are NULL.
MkBitmap(vlen, vdim, pat, iso) ==
    LET n == vlen * vdim
        b == [q \in 0..(n - 1) |-> IF (q % vlen) \in pat[q \div vlen] THEN 1 ELSE 0]
    IN  [vlen |-> vlen, vdim |-> vdim, is_hyper |-> FALSE,
         nvec |-> vdim, plen |-> -1,
         h |-> <<>>, p |-> <<>>, i |-> <<>>, b |-> b,
         x |-> IF iso THEN Fill(1, 1)
               ELSE [q \in 0..(n - 1) |-> ValueAt(q % vlen, q \div vlen)],
         iso |-> iso, jumbled |-> FALSE,
         nvals |-> Cardinality({q \in 0..(n - 1) : b[q] = 1}),
         nzombies |-> 0,
         p_shallow |-> FALSE, h_shallow |-> FALSE,
         i_shallow |-> FALSE, x_shallow |-> FALSE,
         kind |-> "bitmap"]

GB_IS_BITMAP(A) == A.kind = "bitmap"

\* GBH (Ah, k): the vector held at position k.
GBH(A, k) == IF A.is_hyper THEN A.h[k] ELSE k

\* The entries held by a sparse or hypersparse matrix, read vector by vector
\* in storage order: (vector, row, value).
RECURSIVE EntriesFrom(_, _, _)
EntriesFrom(A, k, q) ==
    IF k >= A.nvec THEN <<>>
    ELSE IF q >= A.p[k + 1] THEN EntriesFrom(A, k + 1, A.p[k + 1])
    ELSE <<<<GBH(A, k), A.i[q], IF A.iso THEN A.x[0] ELSE A.x[q]>>>>
         \o EntriesFrom(A, k, q + 1)

\* The entries of a bitmap matrix, vector by vector and by increasing row.
BitmapEntries(C) ==
    LET cells == [q \in 1..(C.vlen * C.vdim) |->
                    IF C.b[q - 1] = 1
                    THEN <<<<(q - 1) \div C.vlen, (q - 1) % C.vlen,
                             IF C.iso THEN C.x[0] ELSE C.x[q - 1]>>>>
                    ELSE <<>>]
    IN  Flatten(cells)

Entries(A) ==
    IF A.kind = "bitmap" THEN BitmapEntries(A)
    ELSE IF A.nvec = 0 THEN <<>> ELSE EntriesFrom(A, 0, A.p[0])

\* A user-defined index-unary operator, and the same with i and j flipped.
UserOp(x, i, j, y) == x + i > j + y

\* The index-unary operator of an opcode on the entry A(i,j) = x, with the
\* thunk cast to the operator's thunk type (int16 for the value operators on
\* an int16 matrix, int64 otherwise).
IdxUnopTrue(opcode, flipij, i, j, x, thunk) ==
    CASE opcode = "TRIL"      -> j <= i + thunk
      [] opcode = "TRIU"      -> j >= i + thunk
      [] opcode = "DIAG"      -> j = i + thunk
      [] opcode = "OFFDIAG"   -> j # i + thunk
      [] opcode = "ROWINDEX"  -> i + thunk # 0
      [] opcode = "ROWLE"     -> i <= thunk
      [] opcode = "ROWGT"     -> i > thunk
      [] opcode = "COLINDEX"  -> j + thunk # 0
      [] opcode = "COLLE"     -> j <= thunk
      [] opcode = "COLGT"     -> j > thunk
      [] opcode = "VALUENE"   -> x # CastInt16(thunk)
      [] opcode = "VALUEEQ"   -> x = CastInt16(thunk)
      [] opcode = "VALUEGT"   -> x > CastInt16(thunk)
      [] opcode = "VALUEGE"   -> x >= CastInt16(thunk)
      [] opcode = "VALUELT"   -> x < CastInt16(thunk)
      [] opcode = "VALUELE"   -> x <= CastInt16(thunk)
      [] opcode = "NONZOMBIE" -> i >= 0
      [] OTHER                -> IF flipij THEN UserOp(x, j, i, thunk)
                                 ELSE UserOp(x, i, j, thunk)

\* GB_TEST_VALUE_OF_ENTRY of the entry selectors: the test on Ax [p] against
\* y = *((GB_Y_TYPE *) ythunk).
GB_TEST_VALUE_OF_ENTRYMutant(opcode, ax, y) ==
    CASE opcode = "VALUENE" -> ax # y
      [] opcode = "VALUEEQ" -> ax = y
      [] opcode = "VALUEGT" -> ax > y
      [] opcode = "VALUEGE" -> ax >= y
      [] opcode = "VALUELT" -> ax < y
      [] OTHER              -> ax < y

GB_TEST_VALUE_OF_ENTRY(opcode, ax, y) ==
    CASE opcode = "VALUENE" -> ax # y
      [] opcode = "VALUEEQ" -> ax = y
      [] opcode = "VALUEGT" -> ax > y
      [] opcode = "VALUEGE" -> ax >= y
      [] opcode = "VALUELT" -> ax < y
      [] OTHER              -> ax <= y

\* GB_search_for_vector: the vector k with Ap [k] <= p < Ap [k+1].
GB_search_for_vector(A, q) ==
    CHOOSE k \in 0..(A.nvec - 1) : A.p[k] <= q /\ q < A.p[k + 1]

\* GB_PART (tid, work, ntasks): the start of the tid-th of ntasks equal parts.
GB_PART(tid, work, ntasks) == (tid * work) \div ntasks

\* GB_ek_slice: the slicing of the entries of A into ntasks tasks: the first
\* and last vector and the first entry of each.  A matrix with no entries
\* gets one empty task.
GB_ek_slice(A, ntasks) ==
    LET anz == A.p[A.nvec] IN
    IF anz = 0
    THEN [ntasks |-> 1, kfirst |-> Fill(1, -1), klast |-> Fill(1, -2),
          pstart |-> Fill(2, 0)]
    ELSE LET pstart == [t \in 0..ntasks |-> GB_PART(t, anz, ntasks)]
         IN  [ntasks |-> ntasks,
              kfirst |-> [t \in 0..(ntasks - 1) |->
                            IF t = 0 THEN 0
                            ELSE GB_search_for_vector(A, pstart[t])],
              klast |-> [t \in 0..(ntasks - 1) |->
                            IF t = ntasks - 1 THEN A.nvec - 1
                            ELSE GB_search_for_vector(A, pstart[t + 1] - 1)],
              pstart |-> pstart]

\* GB_get_pA: the part pA..pA_end-1 of vector k that task tid works on.
GB_get_pAMutant(A, sl, tid, k) ==
    IF k = sl.kfirst[tid]
    THEN [pA |-> sl.pstart[tid], pA_end |-> sl.pstart[tid + 1]]
    ELSE IF k = sl.klast[tid]
    THEN [pA |-> A.p[k], pA_end |-> sl.pstart[tid + 1]]
    ELSE [pA |-> A.p[k], pA_end |-> A.p[k + 1]]

GB_get_pA(A, sl, tid, k) ==
    IF k = sl.kfirst[tid]
    THEN [pA |-> sl.pstart[tid], pA_end |-> IMIN(A.p[k + 1], sl.pstart[tid + 1])]
    ELSE IF k = sl.klast[tid]
    THEN [pA |-> A.p[k], pA_end |-> sl.pstart[tid + 1]]
    ELSE [pA |-> A.p[k], pA_end |-> A.p[k + 1]]

\* GB_get_pA_and_pC: the same, and where task tid writes vector k in C.
GB_get_pC(Cp, Cp_kfirst, sl, tid, k) ==
    IF k = sl.kfirst[tid] THEN Cp_kfirst[tid] ELSE Cp[k]

\* The positional selectors: the position Zp [k] in vector k of the row that
\* the operator splits the vector at (binary search in a sorted vector).
PositionalZp(A, opcode, ithunk, k) ==
    LET pA_start == A.p[k]
        pA_end == A.p[k + 1]
        i == CASE opcode = "ROWINDEX" -> 0 - ithunk
               [] opcode \in {"ROWLE", "ROWGT"} -> ithunk
               [] OTHER -> GBH(A, k) - ithunk
        ge == {q \in pA_start..(pA_end - 1) : A.i[q] >= i}
        pp == IF ge = {} THEN pA_end ELSE CHOOSE q \in ge : \A r \in ge : q <= r
        found == pp < pA_end /\ A.i[pp] = i
    IN  CASE opcode = "TRIL" -> pp
          [] opcode \in {"TRIU", "ROWLE", "ROWGT"} -> IF found THEN pp + 1 ELSE pp
          [] OTHER -> IF found THEN pp ELSE -1

\* Whether a positional selector keeps the entry at position q, given Zp [k].
PositionalKeep(opcode, zp, q) ==
    CASE opcode \in {"TRIL", "ROWGT"} -> q >= zp
      [] opcode \in {"TRIU", "ROWLE"} -> q < zp
      [] opcode = "DIAG" -> q = zp
      [] OTHER -> q # zp

\* ---------------------------------------------------------------------
\* GB_selector: the general two-phase path
\* ---------------------------------------------------------------------

\* A matrix header with no content.
NoMatrix == [kind |-> "null"]

\* No slicing: a bitmap matrix is not sliced by its entries.
NoSlicing ==
    [ntasks |-> 1, kfirst |-> Fill(1, -1), klast |-> Fill(1, -2),
     pstart |-> Fill(2, 0)]

\* The state of a call of GB_selector on entry: C == NULL selects in place.
SelEntry(A, opcode, thunk, flipij, in_place) ==
    [pc |-> "start", A |-> A, A0 |-> A, opcode |-> opcode, ithunk |-> thunk,
     ythunk |-> IF opcode \in ValueOps THEN CastInt16(thunk) ELSE thunk,
     athunk |-> IF opcode = "VALUEEQ" THEN CastInt16(thunk) ELSE 0,
     flipij |-> flipij, in_place_A |-> in_place, C |-> NoMatrix,
     info |-> "none", path |-> "none",
     C_iso |-> A.iso \/ opcode = "VALUEEQ",
     Cp |-> <<>>, Ch |-> <<>>, Ci |-> <<>>, Cx |-> <<>>, Zp |-> <<>>,
     Wfirst |-> <<>>, Wlast |-> <<>>, Cp_kfirst |-> <<>>,
     A_ek_slicing |-> IF GB_IS_BITMAP(A) THEN NoSlicing ELSE GB_ek_slice(A, 1),
     C_nvec_nonempty |-> 0,
     alloc |-> {}, freed |-> {}, overwritten |-> {},
     done1 |-> {}, merged |-> FALSE, done2 |-> {}, evals |-> 0,
     counts |-> <<>>, failed |-> "none"]

\* The tasks of the slicing of A.
Tasks(s) == 0..(s.A_ek_slicing.ntasks - 1)

\* GB_FREE_WORKSPACE and GB_FREE_ALL: every array of the call is freed, and
\* the content of C with them.
GB_FREE_WORKSPACEMutant(s) == [s EXCEPT !.alloc = s.alloc \ {"Cp", "Ci", "Cx"}]

GB_FREE_WORKSPACE(s) ==
    [s EXCEPT !.alloc = s.alloc \ {"Zp", "Work", "A_ek_slicing", "Cp", "Ch", "Ci", "Cx"}]

GB_FREE_ALL(s) == [GB_FREE_WORKSPACE(s) EXCEPT !.C = NoMatrix]

\* return (GrB_OUT_OF_MEMORY), return (GrB_SUCCESS)
SelReturn(s, info) == [s EXCEPT !.pc = "done", !.info = info]

\* An allocation fails: free what is there and return.
OutOfMemory(s, what) == [SelReturn(s, "GrB_OUT_OF_MEMORY") EXCEPT !.failed = what]

\* The allocations up to phase 1: Cp (calloc), the slicing of A into tasks,
\* Work and, for a positional operator, Zp.  fail names the allocation that
\* fails, if any.
SetupFailures == {"none", "Cp", "A_ek_slicing", "Work", "Zp"}

GB_selector_setup(s, ntasks, fail) ==
    LET anvec == s.A.nvec
        cplen == IMAX(1, anvec)
        s0 == [s EXCEPT !.path = "general"]
        s1 == [s0 EXCEPT !.Cp = Fill(cplen + 1, 0), !.alloc = @ \cup {"Cp"}]
        s2 == [s1 EXCEPT !.A_ek_slicing = GB_ek_slice(s.A, ntasks),
                         !.alloc = @ \cup {"A_ek_slicing"}]
        nt == s2.A_ek_slicing.ntasks
        s3 == [s2 EXCEPT !.Wfirst = Fill(nt, Uninit), !.Wlast = Fill(nt, Uninit),
                         !.Cp_kfirst = Fill(nt, Uninit),
                         !.alloc = @ \cup {"Work"}]
        s4 == IF op_is_positional(s.opcode)
              THEN [s3 EXCEPT !.Zp = Fill(cplen, Uninit), !.alloc = @ \cup {"Zp"}]
              ELSE s3
    IN  CASE fail = "Cp" -> OutOfMemory(s0, fail)
          [] fail = "A_ek_slicing" -> OutOfMemory(GB_FREE_ALL(s1), fail)
          [] fail = "Work" -> OutOfMemory(GB_FREE_ALL(s2), fail)
          [] fail = "Zp" /\ op_is_positional(s.opcode) ->
                OutOfMemory(GB_FREE_ALL(s3), fail)
          [] OTHER -> [s4 EXCEPT !.pc = "phase1"]

\* Whether the selector keeps the entry at position q of vector k: by Zp [k]
\* for a positional operator, by the row index for NONZOMBIE, by the value
\* for an entry selector, by the function of the user for a user-defined one.
KeepEntry(s, Zp, k, q) ==
    IF op_is_positional(s.opcode) THEN PositionalKeep(s.opcode, Zp[k], q)
    ELSE IF s.opcode = "NONZOMBIE" THEN s.A.i[q] >= 0
    ELSE IF s.opcode \in ValueOps
    THEN GB_TEST_VALUE_OF_ENTRY(s.opcode, s.A.x[IF s.A.iso THEN 0 ELSE q], s.ythunk)
    ELSE IF s.flipij
    THEN UserOp(s.A.x[IF s.A.iso THEN 0 ELSE q], GBH(s.A, k), s.A.i[q], s.ythunk)
    ELSE UserOp(s.A.x[IF s.A.iso THEN 0 ELSE q], s.A.i[q], GBH(s.A, k), s.ythunk)

\* The positions of vector k that task tid keeps.
KeptBy(s, Zp, tid, k) ==
    LET r == GB_get_pA(s.A, s.A_ek_slicing, tid, k)
    IN  {q \in r.pA..(r.pA_end - 1) : KeepEntry(s, Zp, k, q)}

\* Phase 1, task tid: count the entries kept in each vector of the task, in
\* Wfirst and Wlast for its first and last vector and in Cp for the others.
GB_select_phase1_task(s, tid) ==
    LET kfirst == s.A_ek_slicing.kfirst[tid]
        klast == s.A_ek_slicing.klast[tid]
        Zp == IF op_is_positional(s.opcode)
              THEN [k \in DOMAIN s.Zp |->
                      IF kfirst <= k /\ k <= klast
                      THEN PositionalZp(s.A, s.opcode, s.ithunk, k)
                      ELSE s.Zp[k]]
              ELSE s.Zp
        cjnz(k) == Cardinality(KeptBy(s, Zp, tid, k))
        seen == s.A_ek_slicing.pstart[tid + 1] - s.A_ek_slicing.pstart[tid]
    IN  [s EXCEPT !.Zp = Zp,
                  !.Wfirst[tid] = IF kfirst <= klast THEN cjnz(kfirst) ELSE 0,
                  !.Wlast[tid] = IF kfirst < klast THEN cjnz(klast) ELSE 0,
                  !.Cp = [k \in DOMAIN s.Cp |->
                            IF kfirst < k /\ k < klast THEN cjnz(k) ELSE s.Cp[k]],
                  !.evals = IF op_is_positional(s.opcode) THEN @ ELSE @ + seen,
                  !.done1 = @ \cup {tid}]

\* GB_ek_slice_merge1: the counts of the first and last vector of each
\* task, summed into Cp.
RECURSIVE GB_ek_slice_merge1(_, _, _, _)
GB_ek_slice_merge1(s, Cp, tid, kprior) ==
    IF tid >= s.A_ek_slicing.ntasks THEN Cp
    ELSE LET kfirst == s.A_ek_slicing.kfirst[tid]
             klast == s.A_ek_slicing.klast[tid]
             Cp1 == IF kfirst > klast THEN Cp
                    ELSE IF kprior < kfirst
                    THEN [Cp EXCEPT ![kfirst] = s.Wfirst[tid]]
                    ELSE [Cp EXCEPT ![kfirst] = @ + s.Wfirst[tid]]
             kprior1 == IF kfirst <= klast /\ kprior < kfirst THEN kfirst ELSE kprior
             Cp2 == IF kfirst < klast THEN [Cp1 EXCEPT ![klast] = s.Wlast[tid]] ELSE Cp1
             kprior2 == IF kfirst < klast THEN klast ELSE kprior1
         IN  GB_ek_slice_merge1(s, Cp2, tid + 1, kprior2)

\* The end of phase 1, once every task has counted.
Phase1CompleteMutant(s) == TRUE

Phase1Complete(s) == s.done1 = Tasks(s)

GB_select_phase1_merge(s) ==
    LET Cp == GB_ek_slice_merge1(s, s.Cp, 0, -1)
    IN  [s EXCEPT !.Cp = Cp, !.counts = Cp, !.merged = TRUE, !.pc = "phase1b"]

\* GB_cumsum: Cp [0..n] becomes the cumulative sum of the counts Cp [0..n-1].
RECURSIVE SumTo(_, _)
SumTo(count, k) == IF k <= 0 THEN 0 ELSE SumTo(count, k - 1) + count[k - 1]

GB_cumsum(count, n) == [k \in DOMAIN count |-> IF k <= n THEN SumTo(count, k) ELSE count[k]]

\* GB_ek_slice_merge2: the cumulative sum of Cp, the number of vectors of C
\* with entries, and where each task starts to write its first vector.
RECURSIVE Cp_kfirst_from(_, _, _, _, _, _)
Cp_kfirst_from(s, Cp, W, tid, kprior, pC) ==
    IF tid >= s.A_ek_slicing.ntasks THEN W
    ELSE LET kfirst == s.A_ek_slicing.kfirst[tid]
             klast == s.A_ek_slicing.klast[tid]
             first == kprior < kfirst
             pC1 == IF first THEN Cp[kfirst] ELSE pC
             pC2 == IF kfirst < klast THEN Cp[klast] + s.Wlast[tid]
                    ELSE pC1 + s.Wfirst[tid]
             kprior2 == IF kfirst < klast THEN klast
                        ELSE IF first THEN kfirst ELSE kprior
         IN  Cp_kfirst_from(s, Cp, [W EXCEPT ![tid] = pC1], tid + 1, kprior2, pC2)

GB_ek_slice_merge2(s) ==
    LET anvec == s.A.nvec
        Cp == GB_cumsum(s.Cp, anvec)
    IN  [s EXCEPT !.Cp = Cp,
                  !.C_nvec_nonempty = Cardinality({k \in 0..(anvec - 1) : s.Cp[k] > 0}),
                  !.Cp_kfirst = Cp_kfirst_from(s, Cp, s.Cp_kfirst, 0, -1, 0)]

\* GB_select_iso: the iso value of C.
GB_select_isoMutant(s) == s.A.x[0]

GB_select_iso(s) == IF s.opcode = "VALUEEQ" THEN s.athunk ELSE s.A.x[0]

\* Phase 1b: the cumulative sum, then the allocation of Ci and Cx from the
\* total and the iso value of C.
Phase1bFailures == {"none", "Ci", "Cx"}

GB_selector_phase1b(s, fail) ==
    LET s1 == GB_ek_slice_merge2(s)
        cnz == IMAX(s1.Cp[s.A.nvec], 1)
        Cx == IF s.C_iso THEN Fill(1, GB_select_iso(s)) ELSE Fill(cnz, Uninit)
        s2 == [s1 EXCEPT !.Ci = Fill(cnz, Uninit), !.Cx = Cx,
                         !.alloc = @ \cup {"Ci", "Cx"}]
    IN  IF fail = "none" THEN [s2 EXCEPT !.pc = "phase2"]
        ELSE OutOfMemory(GB_FREE_ALL([s1 EXCEPT !.alloc = @ \cup ({"Ci", "Cx"} \ {fail})]),
                         fail)

\* Phase 2, task tid: copy the entries kept in each vector of the task to
\* Ci and Cx, from where the cumulative sum says the vector starts.
GB_select_phase2_task(s, tid) ==
    LET kfirst == s.A_ek_slicing.kfirst[tid]
        klast == s.A_ek_slicing.klast[tid]
        kept(k) == SeqOfSet(KeptBy(s, s.Zp, tid, k))
        pC(k) == GB_get_pC(s.Cp, s.Cp_kfirst, s.A_ek_slicing, tid, k)
        hit(c) == {k \in kfirst..klast : pC(k) <= c /\ c < pC(k) + Len(kept(k))}
        from(c) == LET k == CHOOSE k \in hit(c) : TRUE IN kept(k)[c - pC(k) + 1]
    IN  [s EXCEPT !.Ci = [c \in DOMAIN s.Ci |->
                            IF hit(c) # {} THEN s.A.i[from(c)] ELSE s.Ci[c]],
                  !.Cx = IF s.C_iso THEN s.Cx
                         ELSE [c \in DOMAIN s.Cx |->
                                 IF hit(c) # {} THEN s.A.x[from(c)] ELSE s.Cx[c]],
                  !.done2 = @ \cup {tid},
                  !.pc = IF s.done2 \cup {tid} = Tasks(s) THEN "finalize" ELSE "phase2"]

\* The vectors of C with entries, in order, after the cumulative sum.
NonEmptyVectorsMutant(s) == SeqOfSet({k \in 0..(s.A.nvec - 1) : s.Cp[k] <= s.Cp[k + 1]})

NonEmptyVectors(s) == SeqOfSet({k \in 0..(s.A.nvec - 1) : s.Cp[k] < s.Cp[k + 1]})

\* The number of entries of the result: the last offset, p [nvec].
GB_nvalsMutant(p, nvec) == p[0]

GB_nvals(p, nvec) == p[nvec]

\* Whether the in-place result has vectors to prune from the hyperlist.
InPlacePruneMutant(s) == FALSE

InPlacePrune(s) == s.A.is_hyper /\ s.C_nvec_nonempty < s.A.nvec

\* Finalize in place: prune the empty vectors from Ah and Ap, or replace
\* A->p by Cp; then free A->i and A->x and transplant Ci and Cx into A.
GB_selector_finalize_in_place(s) ==
    LET A == s.A
        anvec == A.nvec
        prune == InPlacePrune(s)
        ks == NonEmptyVectors(s)
        cnvec == Len(ks)
        Ah == [c \in DOMAIN A.h |-> IF c < cnvec THEN A.h[ks[c + 1]] ELSE A.h[c]]
        Ap == [c \in DOMAIN A.p |->
                 IF c < cnvec THEN s.Cp[ks[c + 1]]
                 ELSE IF c = cnvec THEN s.Cp[anvec] ELSE A.p[c]]
        A1 == IF prune THEN [A EXCEPT !.h = Ah, !.p = Ap, !.nvec = cnvec]
              ELSE [A EXCEPT !.p = s.Cp, !.plen = IMAX(1, anvec)]
        A2 == [A1 EXCEPT !.i = s.Ci, !.x = s.Cx, !.jumbled = A.jumbled,
                         !.iso = s.C_iso, !.nvals = GB_nvals(A1.p, A1.nvec)]
    IN  [s EXCEPT !.A = A2, !.Cp = <<>>, !.Ci = <<>>, !.Cx = <<>>,
                  !.alloc = @ \ {"Cp", "Ci", "Cx"},
                  !.freed = @ \cup (IF prune THEN {"Cp"} ELSE {"Ap"}) \cup {"Ai", "Ax"},
                  !.overwritten = IF prune THEN {"Ah", "Ap"} ELSE {}]

\* Finalize into C: a new sparse or hypersparse matrix as A, with the empty
\* vectors pruned from Ch and Cp if hypersparse, and Cp, Ch, Ci, Cx
\* transplanted into it.
FinalizeFailures == {"none", "Ch"}

GB_selector_finalize_new(s, fail) ==
    LET A == s.A
        anvec == A.nvec
        ks == NonEmptyVectors(s)
        cnvec == Len(ks)
        Ch == [c \in 0..(anvec - 1) |-> IF c < cnvec THEN A.h[ks[c + 1]] ELSE Uninit]
        Cp == [c \in DOMAIN s.Cp |->
                 IF c < cnvec THEN s.Cp[ks[c + 1]]
                 ELSE IF c = cnvec THEN s.Cp[anvec] ELSE s.Cp[c]]
        C == [vlen |-> A.vlen, vdim |-> A.vdim, is_hyper |-> A.is_hyper,
              nvec |-> IF A.is_hyper THEN cnvec ELSE A.vdim,
              plen |-> IMAX(1, anvec),
              h |-> IF A.is_hyper THEN Ch ELSE <<>>,
              p |-> IF A.is_hyper THEN Cp ELSE s.Cp,
              i |-> s.Ci, x |-> s.Cx, iso |-> s.C_iso, jumbled |-> A.jumbled,
              nvals |-> IF A.is_hyper THEN GB_nvals(Cp, cnvec) ELSE GB_nvals(s.Cp, A.vdim),
              nzombies |-> 0,
              p_shallow |-> FALSE, h_shallow |-> FALSE,
              i_shallow |-> FALSE, x_shallow |-> FALSE, kind |-> "sparse"]
    IN  IF A.is_hyper /\ fail = "Ch" THEN GB_FREE_ALL(s)
        ELSE [s EXCEPT !.C = C, !.Cp = <<>>, !.Ci = <<>>, !.Cx = <<>>,
                       !.alloc = @ \ {"Cp", "Ci", "Cx"}]

\* Finalize the result, free the workspace and return.
GB_selector_finalize(s, fail) ==
    IF s.in_place_A
    THEN SelReturn(GB_FREE_WORKSPACE(GB_selector_finalize_in_place(s)), "GrB_SUCCESS")
    ELSE IF s.A.is_hyper /\ fail = "Ch"
    THEN OutOfMemory(GB_selector_finalize_new(s, fail), fail)
    ELSE SelReturn(GB_FREE_WORKSPACE(GB_selector_finalize_new(s, fail)), "GrB_SUCCESS")

\* ---------------------------------------------------------------------
\* GB_selector: the iso, bitmap and column paths
\* ---------------------------------------------------------------------

\* GB_shallow_copy: C holds the arrays of A, all of them shallow.
GB_shallow_copy(A) ==
    [A EXCEPT !.p_shallow = TRUE, !.h_shallow = TRUE,
              !.i_shallow = TRUE, !.x_shallow = TRUE]

\* GB_new with GB_Ap_calloc and one vector: an empty matrix of the given
\* dimensions.
GB_new_empty(vlen, vdim) ==
    [vlen |-> vlen, vdim |-> vdim, is_hyper |-> TRUE, nvec |-> 0, plen |-> 1,
     h |-> Fill(1, 0), p |-> Fill(2, 0), i |-> <<>>, x |-> <<>>,
     iso |-> FALSE, jumbled |-> FALSE, nvals |-> 0, nzombies |-> 0,
     p_shallow |-> FALSE, h_shallow |-> FALSE,
     i_shallow |-> FALSE, x_shallow |-> FALSE, kind |-> "sparse"]

\* The iso case of the operators that depend only on the value.
IsoValueCase(s) == s.A.iso /\ s.opcode \in ValueOps

\* The operator applied to the iso scalar of A, once: C is then a shallow
\* copy of A or an empty matrix.
GB_selector_isoMutant(s) ==
    SelReturn([s EXCEPT !.path = "iso", !.C = GB_shallow_copy(s.A), !.evals = @ + 1],
              "GrB_SUCCESS")

GB_selector_iso(s) ==
    LET keep == IdxUnopTrue(s.opcode, FALSE, 0, 0, s.A.x[0], s.ithunk)
        C == IF keep THEN GB_shallow_copy(s.A) ELSE GB_new_empty(s.A.vlen, s.A.vdim)
    IN  SelReturn([s EXCEPT !.path = "iso", !.C = C, !.evals = @ + 1], "GrB_SUCCESS")

\* GB_as_if_full: all entries present, not jumbled, no zombies.
GB_as_if_full(A) ==
    /\ A.nvec = A.vdim
    /\ A.p[A.nvec] = A.vlen * A.vdim
    /\ ~A.jumbled
    /\ A.nzombies = 0

use_selector_bitmapMutant(s) ==
    IF s.opcode = "NONZOMBIE" \/ s.in_place_A THEN FALSE
    ELSE s.A.kind = "bitmap"

use_selector_bitmap(s) ==
    IF s.opcode = "NONZOMBIE" \/ s.in_place_A THEN FALSE
    ELSE IF s.opcode = "DIAG" THEN GB_IS_BITMAP(s.A)
    ELSE IF GB_IS_BITMAP(s.A) THEN TRUE ELSE GB_as_if_full(s.A)

\* GB_selector_bitmap on a bitmap or as-if-full A: C is bitmap, with C(i,j)
\* present where A(i,j) is present and the operator holds of it.
GB_selector_bitmap(s, fail) ==
    LET A == s.A
        n == A.vlen * A.vdim
        ax(q) == A.x[IF A.iso THEN 0 ELSE q]
        present(q) == GB_IS_BITMAP(A) => A.b[q] = 1
        keep(q) == /\ present(q)
                   /\ IdxUnopTrue(s.opcode, s.flipij, q % A.vlen, q \div A.vlen,
                                  ax(q), s.ithunk)
        C == [kind |-> "bitmap", vlen |-> A.vlen, vdim |-> A.vdim,
              b |-> [q \in 0..(n - 1) |-> IF keep(q) THEN 1 ELSE 0],
              x |-> IF s.C_iso THEN Fill(1, GB_select_iso(s))
                    ELSE [q \in 0..(n - 1) |-> ax(q)],
              iso |-> s.C_iso, jumbled |-> FALSE,
              nvals |-> Cardinality({q \in 0..(n - 1) : keep(q)}), nzombies |-> 0]
        s1 == [s EXCEPT !.path = "bitmap"]
    IN  IF fail THEN OutOfMemory(s1, "C")
        ELSE SelReturn([s1 EXCEPT !.C = C,
                                  !.evals = @ + Cardinality({q \in 0..(n - 1) : present(q)})],
                       "GrB_SUCCESS")

\* GB_SPLIT_BINARY_SEARCH of j in the hyperlist: found, at position k; or
\* not found, Ah [0..k-1] < j and Ah [k..anvec-1] > j.
FindColumnMutant(A, j) ==
    IF j < 0 THEN [k |-> 0, found |-> FALSE]
    ELSE IF j >= A.vdim THEN [k |-> A.nvec, found |-> FALSE]
    ELSE [k |-> IMIN(j, A.nvec), found |-> j < A.nvec]

FindColumnClampMutant(A, j) ==
    IF j < 0 \/ j >= A.vdim THEN [k |-> 0, found |-> FALSE]
    ELSE IF A.is_hyper
    THEN LET k == Cardinality({kk \in 0..(A.nvec - 1) : A.h[kk] < j})
         IN  [k |-> k, found |-> k < A.nvec /\ A.h[k] = j]
    ELSE [k |-> j, found |-> TRUE]

FindColumn(A, j) ==
    IF j < 0 THEN [k |-> 0, found |-> FALSE]
    ELSE IF j >= A.vdim THEN [k |-> A.nvec, found |-> FALSE]
    ELSE IF A.is_hyper
    THEN LET k == Cardinality({kk \in 0..(A.nvec - 1) : A.h[kk] < j})
         IN  [k |-> k, found |-> k < A.nvec /\ A.h[k] = j]
    ELSE [k |-> j, found |-> TRUE]

\* The column selectors, in a single pass: C is a shallow copy of A, or
\* empty, or built by copying the ranges of Ap, Ah, Ai and Ax that it keeps.
GB_selector_column(s, fail) ==
    LET A == s.A
        opcode == s.opcode
        anvec == A.nvec
        j == IF opcode = "COLINDEX" THEN 0 - s.ithunk ELSE s.ithunk
        f == FindColumn(A, j)
        k == f.k
        found == f.found
        fnd == IF found THEN 1 ELSE 0
        pstart == A.p[k]
        pend == IF found THEN A.p[k + 1] ELSE pstart
        ajnz == pend - pstart
        anz == A.p[anvec]
        nk == IF A.is_hyper THEN k + fnd ELSE 0
        cnz == CASE opcode = "COLINDEX" -> anz - ajnz
                 [] opcode = "COLLE" -> pend
                 [] OTHER -> anz - pend
        cnvec == CASE opcode = "COLINDEX" ->
                        IF A.is_hyper /\ found THEN anvec - 1 ELSE anvec
                   [] opcode = "COLLE" -> IF A.is_hyper THEN k + fnd ELSE anvec
                   [] OTHER -> anvec - nk
        Cp == [kk \in 0..cnvec |->
                 CASE opcode = "COLINDEX" /\ A.is_hyper ->
                        IF kk < k THEN A.p[kk] ELSE A.p[kk + 1] - ajnz
                   [] opcode = "COLINDEX" /\ ~A.is_hyper ->
                        IF kk <= k THEN A.p[kk] ELSE A.p[kk] - ajnz
                   [] opcode = "COLLE" /\ A.is_hyper -> A.p[kk]
                   [] opcode = "COLLE" /\ ~A.is_hyper ->
                        IF kk <= k + 1 THEN A.p[kk] ELSE cnz
                   [] opcode = "COLGT" /\ A.is_hyper -> A.p[kk + k + fnd] - pend
                   [] OTHER -> IF kk <= k THEN 0 ELSE A.p[kk] - pend]
        Ch == [kk \in 0..(cnvec - 1) |->
                 CASE opcode = "COLINDEX" -> IF kk < k THEN A.h[kk] ELSE A.h[kk + 1]
                   [] opcode = "COLLE" -> A.h[kk]
                   [] OTHER -> A.h[kk + k + fnd]]
        src(c) == CASE opcode = "COLINDEX" -> IF c < pstart THEN c ELSE c - pstart + pend
                    [] opcode = "COLLE" -> c
                    [] OTHER -> c + pend
        C == [vlen |-> A.vlen, vdim |-> A.vdim, is_hyper |-> A.is_hyper,
              nvec |-> cnvec, plen |-> IMAX(1, cnvec),
              h |-> IF A.is_hyper THEN Ch ELSE <<>>, p |-> Cp,
              i |-> [c \in 0..(cnz - 1) |-> A.i[src(c)]],
              x |-> IF A.iso THEN Fill(1, A.x[0])
                    ELSE [c \in 0..(cnz - 1) |-> A.x[src(c)]],
              iso |-> s.C_iso, jumbled |-> A.jumbled, nvals |-> GB_nvals(Cp, cnvec),
              nzombies |-> 0,
              p_shallow |-> FALSE, h_shallow |-> FALSE,
              i_shallow |-> FALSE, x_shallow |-> FALSE, kind |-> "sparse"]
        s1 == [s EXCEPT !.path = "column"]
    IN  IF cnz = anz THEN SelReturn([s1 EXCEPT !.C = GB_shallow_copy(A)], "GrB_SUCCESS")
        ELSE IF cnz = 0
        THEN SelReturn([s1 EXCEPT !.C = GB_new_empty(A.vlen, A.vdim)], "GrB_SUCCESS")
        ELSE IF fail THEN OutOfMemory(s1, "C")
        ELSE SelReturn([s1 EXCEPT !.C = C], "GrB_SUCCESS")

\* ---------------------------------------------------------------------
\* GB_selector: the steps of a call
\* ---------------------------------------------------------------------

SelectIso ==
    /\ sel.pc = "start"
    /\ IsoValueCase(sel)
    /\ sel' = GB_selector_iso(sel)
    /\ UNCHANGED <<jitvars, encvars, cudavars, trvars, emvars, subvars>>

SelectBitmap ==
    /\ sel.pc = "start"
    /\ ~IsoValueCase(sel)
    /\ use_selector_bitmap(sel)
    /\ \E fail \in BOOLEAN : sel' = GB_selector_bitmap(sel, fail)
    /\ UNCHANGED <<jitvars, encvars, cudavars, trvars, emvars, subvars>>

SelectColumn ==
    /\ sel.pc = "start"
    /\ ~IsoValueCase(sel)
    /\ ~use_selector_bitmap(sel)
    /\ sel.opcode \in ColumnOps
    /\ \E fail \in BOOLEAN : sel' = GB_selector_column(sel, fail)
    /\ UNCHANGED <<jitvars, encvars, cudavars, trvars, emvars, subvars>>

SelectSetup ==
    /\ sel.pc = "start"
    /\ ~IsoValueCase(sel)
    /\ ~use_selector_bitmap(sel)
    /\ sel.opcode \notin ColumnOps
    /\ \E fail \in SetupFailures :
       \E ntasks \in 1..IMAX(1, IMIN(MaxTasks, sel.A.p[sel.A.nvec])) :
            sel' = GB_selector_setup(sel, ntasks, fail)
    /\ UNCHANGED <<jitvars, encvars, cudavars, trvars, emvars, subvars>>

Phase1Task(tid) ==
    /\ sel.pc = "phase1"
    /\ tid \in Tasks(sel) \ sel.done1
    /\ sel' = GB_select_phase1_task(sel, tid)
    /\ UNCHANGED <<jitvars, encvars, cudavars, trvars, emvars, subvars>>

Phase1Merge ==
    /\ sel.pc = "phase1"
    /\ Phase1Complete(sel)
    /\ sel' = GB_select_phase1_merge(sel)
    /\ UNCHANGED <<jitvars, encvars, cudavars, trvars, emvars, subvars>>

Phase1b ==
    /\ sel.pc = "phase1b"
    /\ \E fail \in Phase1bFailures : sel' = GB_selector_phase1b(sel, fail)
    /\ UNCHANGED <<jitvars, encvars, cudavars, trvars, emvars, subvars>>

Phase2Task(tid) ==
    /\ sel.pc = "phase2"
    /\ tid \in Tasks(sel) \ sel.done2
    /\ sel' = GB_select_phase2_task(sel, tid)
    /\ UNCHANGED <<jitvars, encvars, cudavars, trvars, emvars, subvars>>

Finalize ==
    /\ sel.pc = "finalize"
    /\ \E fail \in FinalizeFailures : sel' = GB_selector_finalize(sel, fail)
    /\ UNCHANGED <<jitvars, encvars, cudavars, trvars, emvars, subvars>>

\* The matrices of the model: MaxVlen by MaxVdim, sparse or hypersparse,
\* with any pattern; iso or not, jumbled or not, with or without a zombie.
Columns == 0..(MaxVdim - 1)
Patterns == [Columns -> SUBSET (0..(MaxVlen - 1))]
Thunks == (0 - MaxVdim)..MaxVdim

InputMatrices ==
    { MkMatrix(MaxVlen, MaxVdim, hyper,
               SeqOfSet(IF hyper THEN {j \in Columns : pat[j] # {}} \cup extra
                        ELSE Columns),
               [j \in Columns |-> IF jumbled THEN Reverse(SeqOfSet(pat[j]))
                                  ELSE SeqOfSet(pat[j])],
               iso, jumbled, zombie, shallow) :
        pat \in Patterns, hyper \in BOOLEAN, extra \in {{}, Columns},
        iso \in BOOLEAN, jumbled \in BOOLEAN, zombie \in {{}, {0}, {1}},
        shallow \in BOOLEAN }

BitmapMatrices ==
    { MkBitmap(MaxVlen, MaxVdim, pat, iso) : pat \in Patterns, iso \in BOOLEAN }

\* A larger matrix, whose vectors hold 3, 0, 2, 5 and 1 entries.
ExampleCounts == <<3, 0, 2, 5, 1>>

ExampleMatrices ==
    { MkMatrix(5, 5, hyper,
               IF hyper THEN <<0, 2, 3, 4>> ELSE <<0, 1, 2, 3, 4>>,
               [j \in 0..4 |-> [q \in 1..ExampleCounts[j + 1] |-> q - 1]],
               FALSE, FALSE, {}, shallow) :
        hyper \in BOOLEAN, shallow \in BOOLEAN }

\* What the callers of GB_selector ensure: a positional operator is not
\* given a jumbled matrix, only NONZOMBIE is given zombies, the selection is
\* in place only where the general path does it, and a bitmap matrix is
\* neither selected from in place nor given to NONZOMBIE.
SelPrecondition(A, opcode, in_place) ==
    /\ op_is_positional(opcode) => ~A.jumbled
    /\ A.nzombies > 0 => opcode = "NONZOMBIE"
    /\ in_place => (opcode \notin ColumnOps /\ ~(A.iso /\ opcode \in ValueOps))
    /\ A.p_shallow => in_place
    /\ GB_IS_BITMAP(A) => (~in_place /\ opcode # "NONZOMBIE")

InitSel ==
    /\ cache = [k \in Keys |-> <<>>]
    /\ lib = [k \in Kernels |-> NoFile]
    /\ srcfile = [k \in Kernels |-> "none"]
    /\ th = [t \in Threads |-> Idle]
    /\ ndispatch = 0
    /\ nseq = [p \in Problems |-> 0]
    /\ nseqreg = [p \in Problems |-> 0]
    /\ enc = EncIdle
    /\ cuda = CudaIdle /\ tr = TrIdle /\ em = EmIdle /\ sub = SubIdle
    /\ \E opcode \in Opcodes, thunk \in Thunks, flipij \in BOOLEAN,
          in_place \in BOOLEAN :
            /\ flipij => opcode = "USER"
            /\ opcode = "NONZOMBIE" => thunk = 0
            /\ \/ \E A \in InputMatrices \cup ExampleMatrices :
                    /\ SelPrecondition(A, opcode, in_place)
                    /\ sel = SelEntry(A, opcode, thunk, flipij, in_place)
               \/ \E A \in BitmapMatrices :
                    /\ SelPrecondition(A, opcode, in_place)
                    /\ sel = SelEntry(A, opcode, thunk, flipij, in_place)

NextSel ==
    \/ SelectIso
    \/ SelectBitmap
    \/ SelectColumn
    \/ SelectSetup
    \/ \E tid \in 0..(MaxTasks - 1) : Phase1Task(tid)
    \/ Phase1Merge
    \/ Phase1b
    \/ \E tid \in 0..(MaxTasks - 1) : Phase2Task(tid)
    \/ Finalize

SpecSel == InitSel /\ [][NextSel]_vars

SelIdle == [pc |-> "off"]

InitJit ==
    /\ cache = [k \in Keys |-> <<>>]
    /\ lib \in [Kernels -> OldArtifacts \cup {NoFile}]
    /\ \A k \in Kernels : k[4] = "" => lib[k] \in {NoFile} \cup
            {Artifact("cur", ReqDefn, TRUE, FALSE, kn) : kn \in BOOLEAN}
    /\ srcfile = [k \in Kernels |-> "none"]
    /\ th = [t \in Threads |-> Idle]
    /\ ndispatch = 0
    /\ nseq = [p \in Problems |-> 0]
    /\ nseqreg = [p \in Problems |-> 0]
    /\ sel = SelIdle
    /\ enc = EncIdle
    /\ cuda = CudaIdle /\ tr = TrIdle /\ em = EmIdle /\ sub = SubIdle

NextJit ==
    \E t \in Threads :
        \/ \E p \in Problems : Dispatch(t, p)
        \/ LoadExisting(t)
        \/ OpenSource(t)
        \/ WriteSource(t)
        \/ Compile(t)
        \/ Reload(t)
        \/ GetKernel(t)
        \/ Insert(t)
        \/ CallKernel(t)
        \/ Finish(t)

SpecJit == InitJit /\ [][NextJit]_vars

\* The same dispatches, by several threads of one process.
NConcThreads == 2
ConcThreads == 1..NConcThreads

InitJitConc ==
    /\ cache = [k \in Keys |-> <<>>]
    /\ lib \in [Kernels -> {NoFile, Artifact("cur", ReqDefn, TRUE, TRUE, TRUE),
                            Artifact("old", ReqDefn, TRUE, TRUE, TRUE)}]
    /\ \A k \in Kernels : k[4] = "" => lib[k] = NoFile
    /\ srcfile = [k \in Kernels |-> "none"]
    /\ th = [t \in ConcThreads |-> Idle]
    /\ ndispatch = 0
    /\ nseq = [p \in Problems |-> 0]
    /\ nseqreg = [p \in Problems |-> 0]
    /\ sel = SelIdle
    /\ enc = EncIdle
    /\ cuda = CudaIdle /\ tr = TrIdle /\ em = EmIdle /\ sub = SubIdle

NextJitConc ==
    \E t \in ConcThreads :
        \/ \E p \in Problems : Dispatch(t, p)
        \/ LoadExisting(t)
        \/ OpenSource(t)
        \/ WriteSource(t)
        \/ Compile(t)
        \/ Reload(t)
        \/ GetKernel(t)
        \/ Insert(t)
        \/ CallKernel(t)
        \/ Finish(t)

SpecJitConc == InitJitConc /\ [][NextJitConc]_vars

(***************************************************************************)
(*                        GB_AxB_dot3_cuda_branch                          *)
(***************************************************************************)

\* The most entries of M, A and B in the work estimate, and the most GPUs.
MaxCudaNnz == 3
MaxGpus == 2

\* The matrices A and B as the function reads them: the code of the type,
\* the storage format, the number of entries and of vectors.
CudaTypeCodes == {"GB_FP64_code", "GB_UDT_code"}
CudaFormats == {"hypersparse", "sparse", "bitmap", "full"}
CudaMatrices ==
    [code : CudaTypeCodes, kind : CudaFormats, nnz : {0, MaxCudaNnz - 1},
     nvec : {0, 2}]

GB_IS_FULL(A) == A.kind = "full"

\* The GPU settings that GB_ngpus_to_use reads: the number of GPUs, the GPU
\* control and the work that makes one GPU worthwhile.
GpuControls == {"GxB_GPU_NEVER", "GxB_GPU_ALWAYS", "GxB_DEFAULT"}
GpuSettings == [gpu_count : 0..MaxGpus, gpu_control : GpuControls, gpu_chunk : {2}]

\* The estimate of the work, a fraction num / den:
\* GB_nnz (M) * GB_IMIN (adeg, bdeg), with adeg = GB_nnz (A) / GB_IMAX (1, A->nvec)
\* and bdeg likewise.
CudaWork(M_nnz, A, B) ==
    LET anum == A.nnz
        aden == IMAX(1, A.nvec)
        bnum == B.nnz
        bden == IMAX(1, B.nvec)
    IN  IF anum * bden <= bnum * aden
        THEN [num |-> M_nnz * anum, den |-> aden]
        ELSE [num |-> M_nnz * bnum, den |-> bden]

\* GB_ngpus_to_use (work): none if the GPUs are never to be used or there
\* are none, all of them if always, otherwise one per gpu_chunk of work, at
\* most gpu_count.
GB_ngpus_to_use(work, g) ==
    IF g.gpu_control = "GxB_GPU_NEVER" \/ g.gpu_count = 0 THEN 0
    ELSE IF g.gpu_control = "GxB_GPU_ALWAYS" THEN g.gpu_count
    ELSE IMIN(g.gpu_count, work.num \div (work.den * g.gpu_chunk))

\* Lines 39-45: the test for the use of the GPU.
GB_AxB_dot3_cuda_branch_testMutant(ngpus_to_use, A, B) ==
    /\ ngpus_to_use > 0
    /\ A.code # "GB_UDT_code"
    /\ B.code # "GB_UDT_code"
    /\ A.kind # "bitmap" /\ B.kind # "bitmap"
    /\ A.kind # "full"

GB_AxB_dot3_cuda_branch_test(ngpus_to_use, A, B) ==
    /\ ngpus_to_use > 0
    /\ A.code # "GB_UDT_code"
    /\ B.code # "GB_UDT_code"
    /\ ~GB_IS_BITMAP(A) /\ ~GB_IS_BITMAP(B)
    /\ ~GB_IS_FULL(A) /\ ~GB_IS_FULL(B)

\* The state of a call on entry.
CudaEntry(M_nnz, A, B, g) ==
    [pc |-> "work", M_nnz |-> M_nnz, A |-> A, B |-> B, gpu |-> g,
     work |-> [num |-> 0, den |-> 1], ngpus_to_use |-> -1, result |-> FALSE]

\* Lines 22-24: the rough estimate of the work.
CudaEstimate ==
    /\ cuda.pc = "work"
    /\ cuda' = [cuda EXCEPT !.work = CudaWork(cuda.M_nnz, cuda.A, cuda.B),
                            !.pc = "ngpus"]
    /\ UNCHANGED <<jitvars, selvars, encvars, trvars, emvars, subvars>>

\* Line 37: the number of GPUs to use.
CudaNgpus ==
    /\ cuda.pc = "ngpus"
    /\ cuda' = [cuda EXCEPT !.ngpus_to_use = GB_ngpus_to_use(cuda.work, cuda.gpu),
                            !.pc = "test"]
    /\ UNCHANGED <<jitvars, selvars, encvars, trvars, emvars, subvars>>

\* Lines 39-59: return true or false.
CudaBranch ==
    /\ cuda.pc = "test"
    /\ cuda' = [cuda EXCEPT
                    !.result = GB_AxB_dot3_cuda_branch_test(cuda.ngpus_to_use,
                                                            cuda.A, cuda.B),
                    !.pc = "done"]
    /\ UNCHANGED <<jitvars, selvars, encvars, trvars, emvars, subvars>>

\* Two requests, each encoded, named and given its artifact path.
InitEnc ==
    /\ cache = [k \in Keys |-> <<>>]
    /\ lib = [k \in Kernels |-> NoFile]
    /\ srcfile = [k \in Kernels |-> "none"]
    /\ th = [t \in Threads |-> Idle]
    /\ ndispatch = 0
    /\ nseq = [p \in Problems |-> 0]
    /\ nseqreg = [p \in Problems |-> 0]
    /\ sel = SelIdle
    /\ enc \in [EncCalls -> {EncEntry(r) : r \in EncRequests}]
    /\ cuda = CudaIdle /\ tr = TrIdle /\ em = EmIdle /\ sub = SubIdle

NextEnc ==
    \E c \in EncCalls :
        \/ Encodify(c)
        \/ MacrofyName(c)
        \/ LibFilename(c)

SpecEnc == InitEnc /\ [][NextEnc]_vars

\* One call of GB_AxB_dot3_cuda_branch, on any A, B, mask size and GPU
\* settings of the model.
InitCuda ==
    /\ cache = [k \in Keys |-> <<>>]
    /\ lib = [k \in Kernels |-> NoFile]
    /\ srcfile = [k \in Kernels |-> "none"]
    /\ th = [t \in Threads |-> Idle]
    /\ ndispatch = 0
    /\ nseq = [p \in Problems |-> 0]
    /\ nseqreg = [p \in Problems |-> 0]
    /\ sel = SelIdle
    /\ enc = EncIdle
    /\ tr = TrIdle /\ em = EmIdle /\ sub = SubIdle
    /\ \E M_nnz \in {0, 1, MaxCudaNnz}, A \in CudaMatrices, B \in CudaMatrices,
          g \in GpuSettings :
            cuda = CudaEntry(M_nnz, A, B, g)

NextCuda ==
    \/ CudaEstimate
    \/ CudaNgpus
    \/ CudaBranch

SpecCuda == InitCuda /\ [][NextCuda]_vars

(***************************************************************************)
(*                              GB_transpose                               *)
(***************************************************************************)

\* The bounds of the transpose model: the dimensions of the inputs and the
\* number of threads that GB_nthreads may return for the row case.
MaxTrVlen == 2
MaxTrVdim == 3
MaxTrThreads == 2

\* ntasks = (nth == 1) ? 1 : (8 * nth)
TasksPerThread == 8

\* The arrays of a call: the four arrays of the input matrix, the workspace
\* and the arrays allocated for the result.
TrOriginal == {"Ap", "Ah", "Ai", "Ax"}
TrArrays == TrOriginal \cup {"Count", "Cp", "Ch", "Ci", "Cx", "iwork", "jwork", "Swork",
                             "Tp", "Th", "Ti", "Tx"}

\* GB_FREE (p): free the block and set the pointer to NULL; a block freed
\* again is recorded as such.
TrFree(heap, a) ==
    IF a = NULL THEN heap
    ELSE [heap EXCEPT ![a] = IF @ = "live" THEN "freed" ELSE "freed_twice"]

TrAlloc(heap, a) == [heap EXCEPT ![a] = "live"]

\* The header of a matrix: the arrays it holds and whether each is shallow.
TrHeaders == {"A", "C", "T"}

NoHeader ==
    [state |-> "none", kind |-> "none", vlen |-> 0, vdim |-> 0,
     p |-> NULL, h |-> NULL, i |-> NULL, x |-> NULL,
     p_shallow |-> FALSE, h_shallow |-> FALSE,
     i_shallow |-> FALSE, x_shallow |-> FALSE]

\* The header of the input matrix A.
HeaderOf(A) ==
    [state |-> "live",
     kind |-> IF A.kind = "full" THEN "full" ELSE IF A.is_hyper THEN "hyper" ELSE "sparse",
     vlen |-> A.vlen, vdim |-> A.vdim,
     p |-> IF A.kind = "full" THEN NULL ELSE "Ap",
     h |-> IF A.kind # "full" /\ A.is_hyper THEN "Ah" ELSE NULL,
     i |-> IF A.kind = "full" THEN NULL ELSE "Ai",
     x |-> "Ax",
     p_shallow |-> A.p_shallow, h_shallow |-> A.h_shallow,
     i_shallow |-> A.i_shallow, x_shallow |-> A.x_shallow]

\* The arrays that a header holds and owns.
Held(H) == {H.p, H.h, H.i, H.x} \ {NULL}
Owned(H) ==
    {a \in Held(H) : \/ a = H.p /\ ~H.p_shallow
                     \/ a = H.h /\ ~H.h_shallow
                     \/ a = H.i /\ ~H.i_shallow
                     \/ a = H.x /\ ~H.x_shallow}

\* GB_phix_free: free the arrays of a matrix that are not shallow, and
\* clear the header, which stays allocated.
RECURSIVE TrFreeAll(_, _)
TrFreeAll(heap, S) ==
    IF S = {} THEN heap
    ELSE LET a == CHOOSE a \in S : TRUE
         IN  TrFreeAll(TrFree(heap, a), S \ {a})

ClearContent(H) ==
    [H EXCEPT !.p = NULL, !.h = NULL, !.i = NULL, !.x = NULL,
              !.p_shallow = FALSE, !.h_shallow = FALSE,
              !.i_shallow = FALSE, !.x_shallow = FALSE]

GB_phix_free(s, m) ==
    [s EXCEPT !.heap = TrFreeAll(s.heap, Owned(s.hdr[m])),
              !.hdr[m] = ClearContent(s.hdr[m])]

\* GB_Matrix_free (Chandle): free the content and the header of *Chandle
\* and set *Chandle to NULL; nothing is done if *Chandle is NULL.
GB_Matrix_free(s) ==
    IF s.Chandle = NULL THEN s
    ELSE LET m == s.Chandle
             s1 == GB_phix_free(s, m)
         IN  [s1 EXCEPT !.hdr[m].state = "freed", !.Chandle = NULL]

\* GB_Matrix_free (&T)
GB_Matrix_free_T(s) ==
    LET s1 == GB_phix_free(s, "T")
    IN  [s1 EXCEPT !.hdr["T"].state = "freed"]

\* GB_new with GB_Ap_null: a new header if *Chandle is NULL, else the
\* header of *Chandle, with no content: p, h, i and x are NULL, nothing is
\* freed.
GB_new(s, vlen, vdim, kind) ==
    LET m == IF s.Chandle = NULL THEN "C" ELSE s.Chandle
        H == [ClearContent(s.hdr[m]) EXCEPT !.state = "live", !.kind = kind,
                                             !.vlen = vlen, !.vdim = vdim]
    IN  [s EXCEPT !.hdr[m] = H, !.Chandle = m]

\* GB_transplant (C, ctype, &T): the content of C is freed, the arrays of
\* T, none of them shallow, move into C, and the header of T is freed.
GB_transplant(s, m) ==
    LET s1 == GB_phix_free(s, m)
        T == s1.hdr["T"]
    IN  [s1 EXCEPT !.hdr[m] = [T EXCEPT !.state = "live"],
                   !.hdr["T"] = [ClearContent(T) EXCEPT !.state = "freed"]]

\* GB_is_dense: full, or every entry present.
GB_is_dense(A) == A.kind = "full" \/ A.nvals = A.vlen * A.vdim

\* GB_nthreads (work, chunk, nthreads_max)
GB_nthreads(work, chunk, nthreads_max) == IMAX(1, IMIN(work \div chunk, nthreads_max))

\* GB_convert_any_to_full: the pattern of C is freed unless shallow.
GB_convert_any_to_full(s, m) ==
    LET H == s.hdr[m]
        own == Owned(H) \ {H.x}
    IN  [s EXCEPT !.heap = TrFreeAll(s.heap, own),
                  !.hdr[m] = [H EXCEPT !.p = NULL, !.h = NULL, !.i = NULL,
                                       !.p_shallow = FALSE, !.h_shallow = FALSE,
                                       !.i_shallow = FALSE, !.kind = "full"]]

\* Which matrix is transposed, and where: C = C' in place of C, A = A' in
\* place of A, or C = A' with a new C.
TrCalls == {<<NULL, "A">>, <<"A", NULL>>, <<"A", "A">>, <<"A", "other">>}

TrMode(A_in, Chandle) ==
    IF A_in = NULL THEN "in_place_C"
    ELSE IF Chandle = NULL \/ Chandle = A_in THEN "in_place_A"
    ELSE "new"

TrOps == {"none", "unary", "positional"}

\* The state of a call after lines 113-170: the mode, and *Chandle.
TrEntry(call, A, op, cast, nth, use_qsort) ==
    [pc |-> "start", A_in |-> call[1], Chandle_in |-> call[2],
     mode |-> TrMode(call[1], call[2]),
     A |-> A, op |-> op, cast |-> cast, nth |-> nth, use_qsort |-> use_qsort,
     hdr |-> [m \in TrHeaders |-> IF m = "A" THEN HeaderOf(A) ELSE NoHeader],
     Chandle |-> IF TrMode(call[1], call[2]) = "new" THEN NULL ELSE "A",
     heap |-> [a \in TrArrays |-> IF a \in Held(HeaderOf(A)) THEN "live" ELSE "none"],
     Ap |-> NULL, Ah |-> NULL, Ai |-> NULL, Ax |-> NULL,
     Ap_shallow |-> FALSE, Ah_shallow |-> FALSE,
     Ai_shallow |-> FALSE, Ax_shallow |-> FALSE,
     A_is_hyper |-> FALSE, A_is_dense |-> FALSE,
     CountP |-> NULL, ntasks |-> 0, Count |-> <<>>, Cp |-> <<>>, Ci |-> <<>>,
     done1 |-> {}, done2 |-> {},
     wrote |-> [tid \in 0..(TasksPerThread * MaxTrThreads - 1) |-> {}], jwork |-> NULL, Ai_written |-> FALSE,
     path |-> "none", info |-> "none", failed |-> "none"]

TrInPlace(s) == s.mode \in {"in_place_A", "in_place_C"}

\* op1 or op2 is not NULL (a positional operator is replaced by ONE).
TrHasOp(s) == s.op # "none"

allocate_new_Cx(s) == s.cast \/ TrHasOp(s)

\* GB_FREE_IN_PLACE_A: free the prior content of A, but not the header, if
\* the transpose is done in place; an array given to C or freed before is
\* NULL here.
FreeUnlessShallowMutant(s, a, shallow) == TrFree(s.heap, a)

FreeUnlessShallow(s, a, shallow) == IF shallow THEN s.heap ELSE TrFree(s.heap, a)

GB_FREE_IN_PLACE_A(s) ==
    IF TrInPlace(s)
    THEN LET s1 == [s EXCEPT !.heap = FreeUnlessShallow(s, s.Ap, s.Ap_shallow),
                             !.Ap = IF s.Ap_shallow THEN @ ELSE NULL]
             s2 == [s1 EXCEPT !.heap = FreeUnlessShallow(s1, s1.Ah, s1.Ah_shallow),
                              !.Ah = IF s.Ah_shallow THEN @ ELSE NULL]
             s3 == [s2 EXCEPT !.heap = FreeUnlessShallow(s2, s2.Ai, s2.Ai_shallow),
                              !.Ai = IF s.Ai_shallow THEN @ ELSE NULL]
         IN  [s3 EXCEPT !.heap = FreeUnlessShallow(s3, s3.Ax, s3.Ax_shallow),
                        !.Ax = IF s.Ax_shallow THEN @ ELSE NULL]
    ELSE s

\* GB_FREE_C: free the new C matrix, unless C=A' is done in place of A.
GB_FREE_CMutant(s) == GB_Matrix_free(s)

GB_FREE_C(s) == IF s.mode # "in_place_A" THEN GB_Matrix_free(s) ELSE s

GB_FREE_A_AND_C(s) == GB_FREE_C(GB_FREE_IN_PLACE_A(s))

\* GB_FREE_WORK
GB_FREE_WORK(s) == [s EXCEPT !.heap = TrFree(s.heap, s.CountP), !.CountP = NULL]

TrReturn(s, info) == [s EXCEPT !.pc = "done", !.info = info]

TrOutOfMemory(s, what) == [TrReturn(s, "GrB_OUT_OF_MEMORY") EXCEPT !.failed = what]

\* Lines 186-232: make C full if it is dense and transposed in place, and
\* get the arrays of A and whether each is shallow.
TrGetA(s) ==
    LET dense == GB_is_dense(s.A)
        s1 == IF TrInPlace(s) /\ dense /\ s.A.kind # "full"
              THEN GB_convert_any_to_full(s, "A") ELSE s
        H == s1.hdr["A"]
    IN  [s1 EXCEPT !.Ap = H.p, !.Ah = H.h, !.Ai = H.i, !.Ax = H.x,
                   !.Ap_shallow = H.p_shallow, !.Ah_shallow = H.h_shallow,
                   !.Ai_shallow = H.i_shallow, !.Ax_shallow = H.x_shallow,
                   !.A_is_hyper = H.h # NULL, !.A_is_dense = dense]

\* Lines 238-255: the number of tasks, and Count, allocated only for a
\* 1-by-n matrix that is not dense.
TrNtasks(nth, avdim) ==
    IMAX(IMIN(IF nth = 1 THEN 1 ELSE TasksPerThread * nth, avdim), 1)

TrNeedsCount(s) ==
    s.A.nvals > 0 /\ s.A.vdim # 1 /\ s.A.vlen = 1 /\ ~s.A_is_dense

TrAllocCount(s) ==
    LET n == TrNtasks(s.nth, s.A.vdim)
    IN  IF TrNeedsCount(s)
        THEN [s EXCEPT !.ntasks = n, !.heap = TrAlloc(s.heap, "Count"),
                       !.CountP = "Count", !.Count = Fill(n + 1, 0)]
        ELSE [s EXCEPT !.ntasks = n]

\* Lines 1171-1217: free the workspace, apply a positional operator to the
\* values of C, and conform C; each of the last two can run out of memory.
TrFinish(s, fail) ==
    LET s1 == GB_FREE_WORK(s)
    IN  IF s.op = "positional" /\ fail = "positional"
        THEN TrOutOfMemory(GB_FREE_C(s1), fail)
        ELSE IF fail = "conform" THEN TrOutOfMemory(GB_FREE_C(s1), fail)
        ELSE TrReturn(s1, "GrB_SUCCESS")

\* GB_create with GB_Ap_calloc: GB_new, then the content; if the content
\* cannot be allocated, a new header is freed and an existing one is kept.
GB_create(s, vlen, vdim, kind, fail) ==
    LET fresh == s.Chandle = NULL
        s1 == GB_new(s, vlen, vdim, kind)
        m == s1.Chandle
    IN  IF fail = "header" /\ fresh THEN s
        ELSE IF fail = "content"
        THEN IF fresh THEN [s1 EXCEPT !.hdr[m].state = "freed", !.Chandle = NULL] ELSE s1
        ELSE [s1 EXCEPT !.hdr[m].p = "Cp", !.hdr[m].h = "Ch",
                        !.hdr[m].i = "Ci", !.hdr[m].x = "Cx",
                        !.heap = [a \in TrArrays |->
                                    IF a \in {"Cp", "Ch", "Ci", "Cx"} THEN "live"
                                    ELSE s1.heap[a]],
                        !.Cp = Fill(2, 0)]

\* Lines 339-363: A is empty.
TrEmpty(s, fail) ==
    LET s1 == GB_FREE_IN_PLACE_A([s EXCEPT !.path = "empty"])
        fails == (fail = "header" /\ s.Chandle = NULL) \/ fail = "content"
        s2 == GB_create(s1, s.A.vdim, s.A.vlen, "hyper", fail)
    IN  IF fails THEN TrOutOfMemory(GB_FREE_WORK(GB_FREE_C(s2)), fail)
        ELSE TrFinish(s2, fail)

\* GB_MALLOC of the new arrays of C: each is allocated unless it is the one
\* that fails.
TrAllocArrays(s, need, fail) ==
    [s EXCEPT !.heap = [a \in TrArrays |->
                          IF a \in need \ {fail} THEN "live" ELSE s.heap[a]]]

\* GB_FREE (Cp), GB_FREE (Ci), GB_FREE (Cx), ...: those that are not NULL.
TrFreeArrays(s, S) ==
    [s EXCEPT !.heap = TrFreeAll(s.heap, {a \in S : s.heap[a] = "live"})]

\* The shallow flag of an array of A that C takes without a copy.
HandedShallow(s, shallow) == IF TrInPlace(s) THEN shallow ELSE TRUE

\* The numerical values of C: new if an operator is applied or the type
\* changes, else the array Ax itself.
TrSetValues(s, m) ==
    IF TrHasOp(s) \/ s.cast
    THEN [s EXCEPT !.hdr[m].x = "Cx", !.hdr[m].x_shallow = FALSE]
    ELSE [s EXCEPT !.hdr[m].x = s.Ax,
                   !.hdr[m].x_shallow = HandedShallow(s, s.Ax_shallow),
                   !.Ax = NULL]

\* Lines 364-508: a column vector becomes a row.
TrColumnToRow(s, fail) ==
    LET A == s.A
        anz == A.nvals
        dense == s.A_is_dense
        s0 == [s EXCEPT !.path = "column"]
        need == (IF dense THEN {} ELSE {"Cp", "Ci"})
                    \cup (IF allocate_new_Cx(s) THEN {"Cx"} ELSE {})
    IN  IF fail = "header" /\ s.Chandle = NULL
        THEN TrOutOfMemory(GB_FREE_WORK(GB_FREE_C(s0)), fail)
        ELSE LET s1 == GB_new(s0, 1, A.vlen, IF dense THEN "full" ELSE "hyper")
                 m == s1.Chandle
                 s2 == TrAllocArrays(s1, need, fail)
             IN  IF fail \in need \/ (TrHasOp(s) /\ fail = "apply")
                 THEN TrOutOfMemory(GB_FREE_WORK(GB_FREE_A_AND_C(
                                        TrFreeArrays(s2, {"Cp", "Ci", "Cx"}))), fail)
                 ELSE LET s3 == TrSetValues(s2, m)
                          s4 == IF dense THEN s3
                                ELSE [s3 EXCEPT
                                        !.hdr[m].h = s3.Ai,
                                        !.hdr[m].h_shallow = HandedShallow(s3, s3.Ai_shallow),
                                        !.Ai = NULL,
                                        !.hdr[m].i = "Ci", !.hdr[m].p = "Cp",
                                        !.Cp = [k \in 0..anz |-> k],
                                        !.Ci = Fill(anz, 0)]
                      IN  TrFinish(GB_FREE_IN_PLACE_A(s4), fail)

\* GB_PARTITION (jstart, jend, avdim, tid, ntasks)
TrJstart(s, tid) == GB_PART(tid, s.A.vdim, s.ntasks)
TrJend(s, tid) == GB_PART(tid + 1, s.A.vdim, s.ntasks)

\* The loops over the columns j of a range: count the non-empty vectors,
\* or write their indices to Ci from position k on.
TrCountRange(Ap, jstart, jend) ==
    Cardinality({j \in jstart..(jend - 1) : Ap[j] < Ap[j + 1]})

RECURSIVE TrFillRange(_, _, _, _, _)
TrFillRange(Ap, Ci, j, jend, k) ==
    IF j >= jend THEN Ci
    ELSE IF Ap[j] < Ap[j + 1]
    THEN TrFillRange(Ap, [Ci EXCEPT ![k] = j], j + 1, jend, k + 1)
    ELSE TrFillRange(Ap, Ci, j + 1, jend, k)

\* Lines 735-769: Ci becomes C->i, the vector pointers are [0 anz], and the
\* prior content of A is freed if in place.
TrRowVectors(s, fail) ==
    LET m == s.Chandle
        s1 == IF s.A_is_dense THEN s
              ELSE [s EXCEPT !.hdr[m].p = "Cp", !.hdr[m].p_shallow = FALSE,
                             !.Cp = Arr(<<0, s.A.nvals>>)]
    IN  TrFinish(GB_FREE_IN_PLACE_A(s1), fail)

TrRowSetCi(s) ==
    [s EXCEPT !.hdr[s.Chandle].i = "Ci", !.hdr[s.Chandle].i_shallow = FALSE]

\* Lines 509-769: a row becomes a column vector. With more than one
\* thread and A sparse, Ci is built by the tasks.
TrRowToColumn(s, fail) ==
    LET A == s.A
        anz == A.nvals
        dense == s.A_is_dense
        s0 == [s EXCEPT !.path = "row"]
        need == (IF dense THEN {} ELSE {"Cp"})
                    \cup (IF ~(s.A_is_hyper \/ dense) THEN {"Ci"} ELSE {})
                    \cup (IF allocate_new_Cx(s) THEN {"Cx"} ELSE {})
    IN  IF fail = "header" /\ s.Chandle = NULL
        THEN TrOutOfMemory(GB_FREE_WORK(GB_FREE_C(s0)), fail)
        ELSE LET s1 == GB_new(s0, A.vdim, 1, IF dense THEN "full" ELSE "sparse")
                 m == s1.Chandle
                 s2 == TrAllocArrays(s1, need, fail)
             IN  IF fail \in need \/ (TrHasOp(s) /\ fail = "apply")
                 THEN TrOutOfMemory(GB_FREE_WORK(GB_FREE_A_AND_C(
                                        TrFreeArrays(s2, {"Cp", "Ci", "Cx"}))), fail)
                 ELSE LET s3 == TrSetValues(s2, m)
                      IN  IF dense THEN TrRowVectors(s3, fail)
                          ELSE IF s.A_is_hyper
                          THEN TrRowVectors(
                                 [s3 EXCEPT !.hdr[m].i = s3.Ah,
                                            !.hdr[m].i_shallow =
                                                HandedShallow(s3, s3.Ah_shallow),
                                            !.Ah = NULL], fail)
                          ELSE IF s.nth = 1
                          THEN TrRowVectors(TrRowSetCi(
                                 [s3 EXCEPT !.Ci = TrFillRange(A.p, Fill(anz, Uninit),
                                                               0, A.vdim, 0)]), fail)
                          ELSE [s3 EXCEPT !.pc = "count", !.Ci = Fill(anz, Uninit)]

\* Lines 770-835: A is dense; T = A' is built, then transplanted into C.
TrDense(s, fail) ==
    LET A == s.A
        s0 == [s EXCEPT !.path = "dense"]
    IN  IF fail = "T" THEN TrOutOfMemory(GB_FREE_A_AND_C(s0), fail)
        ELSE LET s1 == [s0 EXCEPT
                          !.hdr["T"] = [NoHeader EXCEPT !.state = "live", !.kind = "full",
                                                        !.vlen = A.vdim, !.vdim = A.vlen,
                                                        !.x = "Tx"],
                          !.heap = TrAlloc(s0.heap, "Tx")]
                 s2 == GB_FREE_IN_PLACE_A(s1)
             IN  IF fail = "header" /\ s.Chandle = NULL
                 THEN TrOutOfMemory(GB_Matrix_free_T(GB_FREE_C(s2)), fail)
                 ELSE LET s3 == GB_new(s2, A.vdim, A.vlen, "full")
                      IN  TrFinish(GB_transplant(s3, s3.Chandle), fail)

\* for the qsort method, A->i can be used as workspace and then freed if
\* the transpose is done in place and A->i is not shallow.
recycle_Ai(s) == TrInPlace(s) /\ ~s.Ai_shallow

\* GB_builder: jwork and Swork are freed, iwork becomes T->i; if it runs out
\* of memory iwork is freed too and T is NULL.
GB_builder(s, fail) ==
    LET h1 == TrFree(TrFree(s.heap, s.jwork),
                     IF s.heap["Swork"] = "live" THEN "Swork" ELSE NULL)
        s1 == [s EXCEPT !.jwork = NULL, !.Ai_written = (s.jwork = "Ai")]
    IN  IF fail = "builder" THEN [s1 EXCEPT !.heap = TrFree(h1, "iwork")]
        ELSE [s1 EXCEPT
                !.heap = [a \in TrArrays |->
                            IF a \in {"Tp", "Th", "Tx"} THEN "live" ELSE h1[a]],
                !.hdr["T"] = [NoHeader EXCEPT !.state = "live", !.kind = "hyper",
                                              !.vlen = s.A.vdim, !.vdim = s.A.vlen,
                                              !.p = "Tp", !.h = "Th",
                                              !.i = "iwork", !.x = "Tx"]]

\* Lines 882-1105: the transpose via quicksort.
TrQsort(s, fail) ==
    LET A == s.A
        s0 == [s EXCEPT !.path = "qsort"]
        need == (IF recycle_Ai(s) THEN {} ELSE {"jwork"})
                    \cup (IF TrHasOp(s) THEN {"Swork"} ELSE {})
    IN  IF fail = "iwork" THEN TrOutOfMemory(GB_FREE_WORK(GB_FREE_C(s0)), fail)
        ELSE IF fail = "header" /\ s.Chandle = NULL
        THEN TrOutOfMemory(GB_FREE_WORK(GB_FREE_C(
                    [s0 EXCEPT !.heap = TrFree(TrAlloc(s0.heap, "iwork"), "iwork")])), fail)
        ELSE LET s1 == GB_new([s0 EXCEPT !.heap = TrAlloc(s0.heap, "iwork")],
                              A.vdim, A.vlen, "hyper")
                 s2 == IF TrInPlace(s)
                       THEN LET h1 == FreeUnlessShallow(s1, s1.Ap, s1.Ap_shallow)
                                s1a == [s1 EXCEPT !.heap = h1,
                                                  !.Ap = IF s1.Ap_shallow THEN @ ELSE NULL]
                            IN  [s1a EXCEPT
                                   !.heap = FreeUnlessShallow(s1a, s1a.Ah, s1a.Ah_shallow),
                                   !.Ah = IF s1.Ah_shallow THEN @ ELSE NULL]
                       ELSE s1
                 s3 == TrAllocArrays(s2, need, fail)
                 s4 == IF recycle_Ai(s) THEN [s3 EXCEPT !.jwork = s3.Ai, !.Ai = NULL]
                       ELSE [s3 EXCEPT !.jwork = "jwork"]
             IN  IF fail \in need
                 THEN TrOutOfMemory(GB_FREE_WORK(GB_FREE_A_AND_C(
                            TrFreeArrays(s3, {"iwork", "jwork", "Swork"}))), fail)
                 ELSE IF TrHasOp(s) /\ fail = "apply"
                 THEN TrOutOfMemory(GB_FREE_WORK(GB_FREE_A_AND_C(
                            [s4 EXCEPT !.heap = TrFree(TrFree(TrFree(s4.heap, "iwork"),
                                                              s4.jwork), "Swork"),
                                       !.jwork = NULL])), fail)
                 ELSE LET s5 == GB_FREE_IN_PLACE_A(GB_builder(s4, fail))
                      IN  IF fail = "builder"
                          THEN TrOutOfMemory(GB_FREE_WORK(GB_FREE_A_AND_C(s5)), fail)
                          ELSE TrFinish(GB_transplant(s5, s5.Chandle), fail)

\* GB_transpose_bucket: T = A' in a new matrix.
GB_transpose_bucket(s, fail) ==
    IF fail = "bucket" THEN s
    ELSE [s EXCEPT
            !.heap = [a \in TrArrays |->
                        IF a \in {"Tp", "Ti", "Tx"} THEN "live" ELSE s.heap[a]],
            !.hdr["T"] = [NoHeader EXCEPT !.state = "live", !.kind = "sparse",
                                          !.vlen = s.A.vdim, !.vdim = s.A.vlen,
                                          !.p = "Tp", !.i = "Ti", !.x = "Tx"]]

\* Lines 1106-1164: the transpose via bucket sort.
TrBucket(s, fail) ==
    LET s1 == GB_transpose_bucket([s EXCEPT !.path = "bucket"], fail)
        s2 == IF s.mode = "in_place_A" THEN GB_phix_free(s1, "A")
              ELSE IF s.mode = "in_place_C" THEN GB_Matrix_free(s1)
              ELSE s1
    IN  IF fail = "bucket" THEN TrOutOfMemory(GB_FREE_WORK(GB_FREE_C(s2)), fail)
        ELSE IF s.mode = "in_place_A" THEN TrFinish(GB_transplant(s2, "A"), fail)
        ELSE TrFinish([s2 EXCEPT !.Chandle = "T"], fail)

\* The allocations of GB_transpose that can fail.
TrFailures ==
    {"none", "Count", "header", "content", "Cp", "Ci", "Cx", "apply", "T",
     "iwork", "jwork", "Swork", "builder", "bucket", "positional", "conform"}

\* GB_transpose, from line 186 to its return, or to the start of the tasks
\* that build Ci.
GB_transpose(s, fail) ==
    LET s1 == TrGetA(s)
        A == s.A
    IN  IF TrNeedsCount(s1) /\ fail = "Count" THEN TrOutOfMemory(GB_FREE_C(s1), fail)
        ELSE LET s2 == TrAllocCount(s1)
             IN  IF A.nvals = 0 THEN TrEmpty(s2, fail)
                 ELSE IF A.vdim = 1 /\ ~A.jumbled THEN TrColumnToRow(s2, fail)
                 ELSE IF A.vlen = 1 THEN TrRowToColumn(s2, fail)
                 ELSE IF s2.A_is_dense THEN TrDense(s2, fail)
                 ELSE IF s2.A_is_hyper \/ s.use_qsort THEN TrQsort(s2, fail)
                 ELSE TrBucket(s2, fail)

\* ---------------------------------------------------------------------
\* GB_transpose: the steps of a call
\* ---------------------------------------------------------------------

TrCall ==
    /\ tr.pc = "start"
    /\ \E fail \in TrFailures : tr' = GB_transpose(tr, fail)
    /\ UNCHANGED <<jitvars, selvars, encvars, cudavars, emvars, subvars>>

\* Lines 689-702: task tid counts the non-empty vectors of its range.
TrCountTask(tid) ==
    /\ tr.pc = "count"
    /\ tid \in (0..(tr.ntasks - 1)) \ tr.done1
    /\ tr' = [tr EXCEPT !.Count[tid] = TrCountRange(tr.A.p, TrJstart(tr, tid),
                                                    TrJend(tr, tid)),
                        !.done1 = @ \cup {tid},
                        !.pc = IF tr.done1 \cup {tid} = 0..(tr.ntasks - 1)
                               THEN "cumsum" ELSE "count"]
    /\ UNCHANGED <<jitvars, selvars, encvars, cudavars, emvars, subvars>>

\* Line 704: GB_cumsum (Count, ntasks, NULL, 1)
TrCumsum ==
    /\ tr.pc = "cumsum"
    /\ tr' = [tr EXCEPT !.Count = GB_cumsum(tr.Count, tr.ntasks), !.pc = "fill"]
    /\ UNCHANGED <<jitvars, selvars, encvars, cudavars, emvars, subvars>>

\* Lines 707-719: task tid writes the non-empty vectors of its range to Ci,
\* from position Count [tid] on.
TrFillStartMutant(s, tid) == IF tid = 0 THEN 0 ELSE s.Count[tid - 1]

TrFillStart(s, tid) == s.Count[tid]

TrFillTask(tid) ==
    /\ tr.pc = "fill"
    /\ tid \in (0..(tr.ntasks - 1)) \ tr.done2
    /\ LET k == TrFillStart(tr, tid)
           n == TrCountRange(tr.A.p, TrJstart(tr, tid), TrJend(tr, tid))
       IN  tr' = [tr EXCEPT !.Ci = TrFillRange(tr.A.p, tr.Ci, TrJstart(tr, tid),
                                               TrJend(tr, tid), k),
                            !.wrote[tid] = k..(k + n - 1),
                            !.done2 = @ \cup {tid},
                            !.pc = IF tr.done2 \cup {tid} = 0..(tr.ntasks - 1)
                                   THEN "rowend" ELSE "fill"]
    /\ UNCHANGED <<jitvars, selvars, encvars, cudavars, emvars, subvars>>

\* Lines 735-769 and 1171-1217, after the tasks.
TrRowFinish ==
    /\ tr.pc = "rowend"
    /\ \E fail \in {"none", "positional", "conform"} :
            tr' = TrRowVectors(TrRowSetCi(tr), fail)
    /\ UNCHANGED <<jitvars, selvars, encvars, cudavars, emvars, subvars>>

\* The inputs: 1-by-n rows, m-by-1 columns and square matrices, sparse,
\* hypersparse (the hyperlist holds the non-empty vectors) or full, each
\* array shallow or not. A jumbled matrix has a vector of two entries.
TrShapes == {<<1, MaxTrVdim>>, <<MaxTrVlen, 1>>, <<MaxTrVlen, MaxTrVlen>>}

TrShallows == [{"p", "h", "i", "x"} -> BOOLEAN]

TrMatrix(vlen, vdim, pat, hyper, jumbled, full, sh) ==
    LET cols == 0..(vdim - 1)
        M == MkMatrix(vlen, vdim, hyper,
                      SeqOfSet(IF hyper THEN {j \in cols : pat[j] # {}} ELSE cols),
                      [j \in cols |-> IF jumbled THEN Reverse(SeqOfSet(pat[j]))
                                      ELSE SeqOfSet(pat[j])],
                      FALSE, jumbled, {}, FALSE)
        M1 == [M EXCEPT !.p_shallow = sh["p"], !.h_shallow = sh["h"],
                        !.i_shallow = sh["i"], !.x_shallow = sh["x"]]
    IN  IF full THEN [M1 EXCEPT !.kind = "full"] ELSE M1

TrMatricesOf(vlen, vdim) ==
    { TrMatrix(vlen, vdim, pat, hyper, jumbled, full, sh) :
        pat \in [0..(vdim - 1) -> SUBSET (0..(vlen - 1))],
        hyper \in BOOLEAN, jumbled \in BOOLEAN, full \in BOOLEAN,
        sh \in TrShallows }

TrPrecondition(A) ==
    /\ A.kind = "full" =>
            /\ A.nvals = A.vlen * A.vdim /\ ~A.is_hyper
            /\ ~A.p_shallow /\ ~A.h_shallow /\ ~A.i_shallow
    /\ A.jumbled =>
            /\ A.kind # "full" /\ A.nvals < A.vlen * A.vdim
            /\ \E k \in 0..(A.nvec - 1) : A.p[k + 1] - A.p[k] >= 2
    /\ ~A.is_hyper => ~A.h_shallow

TrMatrices ==
    UNION { {A \in TrMatricesOf(sh[1], sh[2]) : TrPrecondition(A)} : sh \in TrShapes }

\* A row of 17 columns, which 2 threads transpose with 16 tasks.
TrExampleColumns == {0, 3, 4, 9, 15, 16}

TrExample ==
    TrMatrix(1, 2 * TasksPerThread + 1,
             [j \in 0..(2 * TasksPerThread) |-> IF j \in TrExampleColumns THEN {0} ELSE {}],
             FALSE, FALSE, FALSE, [a \in {"p", "h", "i", "x"} |-> FALSE])

\* One call of GB_transpose. The number of threads matters for a sparse
\* row only, and the choice of the method for a sparse matrix only.
InitTr ==
    /\ cache = [k \in Keys |-> <<>>]
    /\ lib = [k \in Kernels |-> NoFile]
    /\ srcfile = [k \in Kernels |-> "none"]
    /\ th = [t \in Threads |-> Idle]
    /\ ndispatch = 0
    /\ nseq = [p \in Problems |-> 0]
    /\ nseqreg = [p \in Problems |-> 0]
    /\ sel = SelIdle
    /\ enc = EncIdle
    /\ cuda = CudaIdle /\ em = EmIdle /\ sub = SubIdle
    /\ \/ \E call \in TrCalls, A \in TrMatrices, op \in TrOps, cast \in BOOLEAN,
            chunk \in {1, 2}, nthreads_max \in 1..MaxTrThreads, use_qsort \in BOOLEAN :
            /\ op # "none" => ~cast
            /\ (A.vlen # 1 \/ A.is_hyper \/ GB_is_dense(A)) =>
                    (chunk = 1 /\ nthreads_max = 1)
            /\ (A.is_hyper \/ GB_is_dense(A) \/ A.vlen = 1 \/ A.vdim = 1) => ~use_qsort
            /\ tr = TrEntry(call, A, op, cast,
                            GB_nthreads(A.vdim, chunk, nthreads_max), use_qsort)
       \/ tr = TrEntry(<<"A", "other">>, TrExample, "none", FALSE,
                       GB_nthreads(TrExample.vdim, 1, 2), FALSE)

NextTr ==
    \/ TrCall
    \/ \E tid \in 0..(TasksPerThread * MaxTrThreads - 1) : TrCountTask(tid)
    \/ TrCumsum
    \/ \E tid \in 0..(TasksPerThread * MaxTrThreads - 1) : TrFillTask(tid)
    \/ TrRowFinish

SpecTr == InitTr /\ [][NextTr]_vars

(***************************************************************************)
(*                          GB_emult_02_template                           *)
(***************************************************************************)

\* C = A.*B or C<#M> = A.*B, where A is sparse or hypersparse, B and M are
\* bitmap or full, and C is sparse with the vectors of A.

\* GBB_B (Bb, pB): whether the entry at position pB of a bitmap or full
\* matrix is present.
GBB(B, pB) == IF GB_IS_BITMAP(B) THEN B.b[pB] = 1 ELSE TRUE

\* GB_MCAST (Mx, pB, msize): the value of the mask entry, as a boolean; Mx
\* is NULL if the mask is structural.
GB_MCAST(s, pB) == IF s.Mask_struct THEN TRUE ELSE s.M.x[pB] # 0

\* GB_GETA and GB_GETB: the value of an entry, the single one if iso.
GB_GETA(A, pA) == A.x[IF A.iso THEN 0 ELSE pA]
GB_GETB(B, pB) == B.x[IF B.iso THEN 0 ELSE pB]

\* GB_BINOP (z, aij, bij, i, j), here the product.
GB_BINOP(aij, bij, i, j) == aij * bij

\* Which of the three methods the template takes.
EmMethod(B, M) ==
    IF M.kind = "null" THEN (IF GB_IS_BITMAP(B) THEN "a" ELSE "b") ELSE "c"

\* Whether the entry at pA of vector j of A gives an entry of C: lines 81,
\* 164-167.
EmKeepMutant(s, j, pA) ==
    LET pB == j * s.A.vlen + s.A.i[pA]
    IN  CASE s.method = "a" -> GBB(s.B, pB)
          [] s.method = "b" -> TRUE
          [] OTHER -> IF ~GBB(s.B, pB) THEN FALSE
                      ELSE IF GBB(s.M, pB) THEN GB_MCAST(s, pB) ELSE FALSE

EmKeep(s, j, pA) ==
    LET pB == j * s.A.vlen + s.A.i[pA]
    IN  CASE s.method = "a" -> GBB(s.B, pB)
          [] s.method = "b" -> TRUE
          [] OTHER -> IF ~GBB(s.B, pB) THEN FALSE
                      ELSE (IF GBB(s.M, pB) THEN GB_MCAST(s, pB) ELSE FALSE)
                                # s.Mask_comp

\* The loop over the entries pA..pA_end-1 of a vector: each entry kept is
\* written at pC, which then advances; with B full and no mask only the
\* value is written, at pA.
RECURSIVE EmLoop(_, _, _, _, _, _, _)
EmLoop(s, tid, k, j, pA, pA_end, pC) ==
    IF pA >= pA_end THEN s
    ELSE LET i == s.A.i[pA]
             pB == j * s.A.vlen + i
             z == GB_BINOP(GB_GETA(s.A, pA), GB_GETB(s.B, pB), i, j)
         IN  IF ~EmKeep(s, j, pA) THEN EmLoop(s, tid, k, j, pA + 1, pA_end, pC)
             ELSE IF s.method = "b"
             THEN EmLoop([s EXCEPT !.Cx[pA] = z,
                                   !.log[tid] = Append(@, <<k, pA, pA>>)],
                         tid, k, j, pA + 1, pA_end, pC)
             ELSE EmLoop([s EXCEPT !.Ci[pC] = i, !.Cx[pC] = z,
                                   !.wroteCi = @ \cup {pC},
                                   !.log[tid] = Append(@, <<k, pA, pC>>)],
                         tid, k, j, pA + 1, pA_end, pC + 1)

\* The loop over the vectors kfirst..klast of a task.
RECURSIVE EmVectors(_, _, _, _)
EmVectors(s, tid, k, klast) ==
    IF k > klast THEN s
    ELSE LET r == GB_get_pA(s.A, s.A_ek_slicing, tid, k)
             pC == IF s.method = "b" THEN r.pA
                   ELSE GB_get_pC(s.Cp, s.Cp_kfirst, s.A_ek_slicing, tid, k)
         IN  EmVectors(EmLoop(s, tid, k, GBH(s.A, k), r.pA, r.pA_end, pC),
                       tid, k + 1, klast)

GB_emult_02_task(s, tid) ==
    LET s1 == EmVectors(s, tid, s.A_ek_slicing.kfirst[tid], s.A_ek_slicing.klast[tid])
        done == s.done \cup {tid}
    IN  [s1 EXCEPT !.done = done,
                   !.pc = IF done = 0..(s.A_ek_slicing.ntasks - 1) THEN "done" ELSE "run"]

\* What the caller prepares: the slicing of A, the vector pointers Cp of C
\* from the count of the entries kept, and where each task starts to write
\* its first vector. With B full and no mask C has the pattern of A.
EmCount(s, tid, k) ==
    LET r == GB_get_pA(s.A, s.A_ek_slicing, tid, k)
    IN  Cardinality({q \in r.pA..(r.pA_end - 1) : EmKeep(s, GBH(s.A, k), q)})

EmEntry(A, B, M, Mask_struct, Mask_comp, ntasks) ==
    LET sl == GB_ek_slice(A, ntasks)
        anz == A.nvals
        s0 == [pc |-> "run", A |-> A, B |-> B, M |-> M,
               Mask_struct |-> Mask_struct, Mask_comp |-> Mask_comp,
               method |-> EmMethod(B, M), A_ek_slicing |-> sl,
               Wfirst |-> Fill(sl.ntasks, 0), Wlast |-> Fill(sl.ntasks, 0),
               Cp |-> Fill(A.nvec + 1, 0), Cp_kfirst |-> Fill(sl.ntasks, 0),
               Ci |-> <<>>, Cx |-> <<>>, wroteCi |-> {},
               log |-> [t \in 0..(sl.ntasks - 1) |-> <<>>], done |-> {}]
        T == 0..(sl.ntasks - 1)
        kf(t) == sl.kfirst[t]
        kl(t) == sl.klast[t]
        owner(k) == {t \in T : kf(t) < k /\ k < kl(t)}
        s1 == [s0 EXCEPT
                 !.Wfirst = [t \in T |-> IF kf(t) <= kl(t) THEN EmCount(s0, t, kf(t)) ELSE 0],
                 !.Wlast = [t \in T |-> IF kf(t) < kl(t) THEN EmCount(s0, t, kl(t)) ELSE 0],
                 !.Cp = [k \in 0..A.nvec |->
                           IF owner(k) # {}
                           THEN EmCount(s0, CHOOSE t \in owner(k) : TRUE, k) ELSE 0]]
        Cp == GB_cumsum(GB_ek_slice_merge1(s1, s1.Cp, 0, -1), A.nvec)
        cnz == Cp[A.nvec]
    IN  IF s0.method = "b"
        THEN [s0 EXCEPT !.Cp = A.p, !.Ci = A.i, !.Cx = Fill(anz, Uninit)]
        ELSE [s1 EXCEPT !.Cp = Cp,
                        !.Cp_kfirst = Cp_kfirst_from(s1, Cp, s1.Cp_kfirst, 0, -1, 0),
                        !.Ci = Fill(cnz, Uninit), !.Cx = Fill(cnz, Uninit)]

\* ---------------------------------------------------------------------
\* GB_emult_02_template: the tasks, in any order
\* ---------------------------------------------------------------------

EmTask(tid) ==
    /\ em.pc = "run"
    /\ tid \in (0..(em.A_ek_slicing.ntasks - 1)) \ em.done
    /\ em' = GB_emult_02_task(em, tid)
    /\ UNCHANGED <<jitvars, selvars, encvars, cudavars, trvars, subvars>>

\* The inputs: A sparse or hypersparse, sorted or jumbled; B bitmap or full,
\* iso or not; no mask, or a mask M bitmap or full, valued or structural,
\* complemented or not; no more tasks than entries of A.
EmMatricesA ==
    { MkMatrix(MaxVlen, MaxVdim, hyper,
               SeqOfSet(IF hyper THEN {j \in Columns : pat[j] # {}} ELSE Columns),
               [j \in Columns |-> IF jumbled THEN Reverse(SeqOfSet(pat[j]))
                                  ELSE SeqOfSet(pat[j])],
               FALSE, jumbled, {}, FALSE) :
        pat \in Patterns, hyper \in BOOLEAN, jumbled \in BOOLEAN }

MkFull(vlen, vdim, iso) ==
    [MkBitmap(vlen, vdim, [j \in 0..(vdim - 1) |-> 0..(vlen - 1)], iso)
        EXCEPT !.kind = "full"]

EmMatricesB ==
    { MkBitmap(MaxVlen, MaxVdim, pat, FALSE) : pat \in Patterns }
        \cup { MkFull(MaxVlen, MaxVdim, iso) : iso \in BOOLEAN }

EmMaskPatterns == [Columns -> {{}, {0}, 0..(MaxVlen - 1)}]

EmMasks ==
    { MkBitmap(MaxVlen, MaxVdim, pat, FALSE) : pat \in EmMaskPatterns }
        \cup { MkFull(MaxVlen, MaxVdim, FALSE) }

\* A bitmap of 5 by 5 that holds the entries with i + j even.
EmExampleB ==
    MkBitmap(5, 5, [j \in 0..4 |-> {i \in 0..4 : (i + j) % 2 = 0}], FALSE)

InitEm ==
    /\ cache = [k \in Keys |-> <<>>]
    /\ lib = [k \in Kernels |-> NoFile]
    /\ srcfile = [k \in Kernels |-> "none"]
    /\ th = [t \in Threads |-> Idle]
    /\ ndispatch = 0
    /\ nseq = [p \in Problems |-> 0]
    /\ nseqreg = [p \in Problems |-> 0]
    /\ sel = SelIdle
    /\ enc = EncIdle
    /\ cuda = CudaIdle /\ tr = TrIdle /\ sub = SubIdle
    /\ \/ \E A \in EmMatricesA, B \in EmMatricesB, ntasks \in 1..MaxTasks :
            /\ ntasks <= IMAX(1, A.nvals)
            /\ em = EmEntry(A, B, NoMatrix, FALSE, FALSE, ntasks)
       \/ \E A \in EmMatricesA, B \in EmMatricesB, M \in EmMasks,
             Mask_struct \in BOOLEAN, Mask_comp \in BOOLEAN, ntasks \in 1..MaxTasks :
            /\ ntasks <= IMAX(1, A.nvals)
            /\ em = EmEntry(A, B, M, Mask_struct, Mask_comp, ntasks)
       \/ \E A \in ExampleMatrices, B \in {EmExampleB, MkFull(5, 5, FALSE)},
             M \in {NoMatrix, EmExampleB}, Mask_comp \in BOOLEAN,
             ntasks \in 1..(MaxTasks + 1) :
            /\ ~A.p_shallow
            /\ M.kind = "null" => ~Mask_comp
            /\ em = EmEntry(A, B, M, FALSE, Mask_comp, ntasks)

NextEm == \E tid \in 0..MaxTasks : EmTask(tid)

SpecEm == InitEm /\ [][NextEm]_vars

(***************************************************************************)
(*                         GB_subassign_method14b                          *)
(***************************************************************************)

\* C(I,J)<!M> += A, using S: C is sparse and may hold zombies, M and A are
\* sparse with one row per entry of I and one vector per entry of J, and
\* the value of S(i,j) is the position in C of the entry C(I[i],J[j]).

GB_IS_ZOMBIE(i) == i < 0
GB_UNFLIP(i) == IF GB_IS_ZOMBIE(i) THEN GB_FLIP(i) ELSE i

\* The index lists: GrB_ALL, a range begin:end, or an explicit list.
SubAll(n) == [kind |-> "ALL", n |-> n, begin |-> 0, list |-> <<>>]
SubRange(begin, n) == [kind |-> "RANGE", n |-> n, begin |-> begin, list |-> <<>>]
SubList(list) == [kind |-> "LIST", n |-> Len(list), begin |-> 0, list |-> Arr(list)]

\* GB_ijlist (I, i, Ikind, Icolon): the i-th index of the list.
GB_ijlist(I, i) ==
    CASE I.kind = "ALL" -> i
      [] I.kind = "RANGE" -> I.begin + i
      [] OTHER -> I.list[i]

\* The position of C(i,j) in C, or -1: a zombie keeps its place.
SubFind(C, i, j) ==
    LET found == {q \in C.p[j]..(C.p[j + 1] - 1) : GB_UNFLIP(C.i[q]) = i}
    IN  IF found = {} THEN -1 ELSE CHOOSE q \in found : TRUE

\* S = C(I,J), as built for the method: the pattern of the submatrix, the
\* value of an entry being its position in C.
GB_subassign_symbolic(C, I, J) ==
    LET perVec == [k \in 1..J.n |->
                     LET jC == GB_ijlist(J, k - 1)
                         rows == SeqOfSet({i \in 0..(I.n - 1) :
                                            SubFind(C, GB_ijlist(I, i), jC) >= 0})
                     IN  [q \in 1..Len(rows) |->
                            <<rows[q], SubFind(C, GB_ijlist(I, rows[q]), jC)>>]]
        ents == Flatten(perVec)
    IN  [p |-> Arr(Offsets(perVec, 0)),
         i |-> [q \in 0..(Len(ents) - 1) |-> ents[q + 1][1]],
         x |-> [q \in 0..(Len(ents) - 1) |-> ents[q + 1][2]]]

\* GB_GET_MIJ_COMPLEMENT (iA): the entry M(iA,j) is looked up in M(:,j),
\* its value is cast to bool, false if there is no entry, and complemented.
GB_GET_MIJ_COMPLEMENT(M, iA, j) ==
    LET found == {q \in M.p[j]..(M.p[j + 1] - 1) : M.i[q] = iA}
        mij == IF found = {} THEN FALSE ELSE M.x[CHOOSE q \in found : TRUE] # 0
    IN  ~mij

\* The accum operator, here plus.
SubAccum(cij, aij) == cij + aij

\* GB_D_A_1_matrix: ( insert ) the entry as a pending tuple of the task; the
\* task is not ok if the tuple cannot be added.
GB_D_A_1_matrix(s, taskid, iC, jC, aij) ==
    IF s.failing THEN [s EXCEPT !.task_ok[taskid] = FALSE]
    ELSE [s EXCEPT !.Pending[taskid] = Append(@, <<iC, jC, aij>>)]

\* GB_withaccum_C_A_1_matrix at the position pC that GB_C_S_LOOKUP reads from
\* S: ( undelete ) a zombie with the value of A, or ( =C+A ) apply accum.
GB_withaccum_C_A_1_matrix(s, pC, aij) ==
    IF GB_IS_ZOMBIE(s.C.i[pC])
    THEN [s EXCEPT !.C.i[pC] = GB_FLIP(@), !.C.x[pC] = aij, !.nzombies = @ - 1]
    ELSE [s EXCEPT !.C.x[pC] = SubAccum(@, aij)]

\* Lines 130-140 and 167-178: S (i,j) is not present, A (i,j) is present.
SubOnlyA(s, taskid, j, pA) ==
    LET iA == s.A.i[pA] IN
    IF GB_GET_MIJ_COMPLEMENT(s.M, iA, j)
    THEN GB_D_A_1_matrix(s, taskid, GB_ijlist(s.I, iA), GB_ijlist(s.J, j), s.A.x[pA])
    ELSE s

\* Lines 144-156: both S (i,j) and A (i,j) present.
SubBothMutant(s, j, pS, pA) ==
    GB_withaccum_C_A_1_matrix(s, s.S.x[pS], s.A.x[pA])

SubBoth(s, j, pS, pA) ==
    IF GB_GET_MIJ_COMPLEMENT(s.M, s.A.i[pA], j)
    THEN GB_withaccum_C_A_1_matrix(s, s.S.x[pS], s.A.x[pA])
    ELSE s

\* Lines 112-179: the 2-way merge of S(:,j) and A(:,j); the remainder of
\* S(:,j) is ignored. The merge stops once the task is not ok.
RECURSIVE SubMerge(_, _, _, _, _, _, _)
SubMerge(s, taskid, j, pS, pS_end, pA, pA_end) ==
    IF ~s.task_ok[taskid] THEN s
    ELSE IF pS < pS_end /\ pA < pA_end
    THEN LET iS == s.S.i[pS]
             iA == s.A.i[pA]
         IN  IF iS < iA
             THEN SubMerge(s, taskid, j, pS + 1, pS_end, pA, pA_end)
             ELSE IF iA < iS
             THEN SubMerge(SubOnlyA(s, taskid, j, pA), taskid, j,
                           pS, pS_end, pA + 1, pA_end)
             ELSE SubMerge(SubBoth(s, j, pS, pA), taskid, j,
                           pS + 1, pS_end, pA + 1, pA_end)
    ELSE IF pA < pA_end
    THEN SubMerge(SubOnlyA(s, taskid, j, pA), taskid, j, pS, pS_end, pA + 1, pA_end)
    ELSE s

\* Lines 86-180: the vectors kfirst..klast of a task.
RECURSIVE SubVectors(_, _, _, _)
SubVectors(s, taskid, k, klast) ==
    IF ~s.task_ok[taskid] \/ k > klast THEN s
    ELSE SubVectors(SubMerge(s, taskid, k, s.S.p[k], s.S.p[k + 1],
                             s.A.p[k], s.A.p[k + 1]),
                    taskid, k + 1, klast)

\* GB_SUBASSIGN_2_SLICE (A, S): the vectors of Z = A+S are divided among the
\* tasks; neither A nor S is hypersparse here, so that Z has every vector.
SubKfirst(s, taskid) == GB_PART(taskid, s.J.n, s.ntasks)
SubKlast(s, taskid) == GB_PART(taskid + 1, s.J.n, s.ntasks) - 1

\* Lines 73-187: one task; ok = ok && task_ok.
GB_subassign_method14b_task(s, taskid, failing) ==
    LET s1 == SubVectors([s EXCEPT !.failing = failing], taskid,
                         SubKfirst(s, taskid), SubKlast(s, taskid))
        done == s.done \cup {taskid}
    IN  [s1 EXCEPT !.failing = FALSE, !.done = done,
                   !.ok = s.ok /\ s1.task_ok[taskid],
                   !.pc = IF done = 0..(s.ntasks - 1) THEN "wrapup" ELSE "run"]

\* GB_SUBASSIGN_WRAPUP: out of memory if a task was not ok; otherwise the
\* zombie count and the pending tuples of the tasks go to C.
GB_SUBASSIGN_WRAPUP(s) ==
    LET all == Flatten([k \in 1..s.ntasks |-> s.Pending[k - 1]])
    IN  IF ~s.ok THEN [s EXCEPT !.pc = "done", !.info = "GrB_OUT_OF_MEMORY"]
        ELSE [s EXCEPT !.pc = "done", !.info = "GrB_SUCCESS",
                       !.C.nzombies = s.nzombies, !.C_Pending = all]

SubEntry(C, I, J, M, A, ntasks) ==
    [pc |-> "run", C |-> C, C_in |-> C, I |-> I, J |-> J, M |-> M, A |-> A,
     S |-> GB_subassign_symbolic(C, I, J), ntasks |-> ntasks,
     nzombies |-> C.nzombies, ok |-> TRUE, failing |-> FALSE,
     task_ok |-> [t \in 0..(ntasks - 1) |-> TRUE],
     Pending |-> [t \in 0..(ntasks - 1) |-> <<>>],
     C_Pending |-> <<>>, done |-> {}, info |-> "none"]

\* ---------------------------------------------------------------------
\* GB_subassign_method14b: the tasks, in any order, then the wrapup
\* ---------------------------------------------------------------------

SubTask(taskid) ==
    /\ sub.pc = "run"
    /\ taskid \in (0..(sub.ntasks - 1)) \ sub.done
    /\ \E failing \in BOOLEAN :
        sub' = GB_subassign_method14b_task(sub, taskid, failing)
    /\ UNCHANGED <<jitvars, selvars, encvars, cudavars, trvars, emvars>>

SubWrapup ==
    /\ sub.pc = "wrapup"
    /\ sub' = GB_SUBASSIGN_WRAPUP(sub)
    /\ UNCHANGED <<jitvars, selvars, encvars, cudavars, trvars, emvars>>

\* The inputs: C sparse, sorted, with or without a zombie; I and J all of
\* the rows or vectors, a range from 1, or the list in reverse; A with any
\* pattern and values that are not zero; M with or without entries, some of
\* whose values are zero.
SubMatricesC ==
    { MkMatrix(MaxVlen, MaxVdim, FALSE, SeqOfSet(Columns),
               [j \in Columns |-> SeqOfSet(pat[j])], FALSE, FALSE, zombie, FALSE) :
        pat \in Patterns, zombie \in {{}, {0}, {1}} }

SubIndexLists(n) ==
    {SubAll(n), SubRange(1, n - 1), SubList(Reverse(SeqOfSet(0..(n - 1))))}

SubValueOfA == 10

SubSparse(nI, nJ, pat, add) ==
    LET X == MkMatrix(nI, nJ, FALSE, SeqOfSet(0..(nJ - 1)),
                      [j \in 0..(nJ - 1) |-> SeqOfSet(pat[j])],
                      FALSE, FALSE, {}, FALSE)
    IN  [X EXCEPT !.x = [q \in DOMAIN X.x |-> X.x[q] + add]]

SubMatricesA(nI, nJ) ==
    { SubSparse(nI, nJ, pat, SubValueOfA) :
        pat \in [0..(nJ - 1) -> SUBSET (0..(nI - 1))] }

SubMasks(nI, nJ) ==
    { SubSparse(nI, nJ, pat, 0) :
        pat \in [0..(nJ - 1) -> {{}, {0} \cap (0..(nI - 1)), 0..(nI - 1)}] }

InitSub ==
    /\ cache = [k \in Keys |-> <<>>]
    /\ lib = [k \in Kernels |-> NoFile]
    /\ srcfile = [k \in Kernels |-> "none"]
    /\ th = [t \in Threads |-> Idle]
    /\ ndispatch = 0
    /\ nseq = [p \in Problems |-> 0]
    /\ nseqreg = [p \in Problems |-> 0]
    /\ sel = SelIdle
    /\ enc = EncIdle
    /\ cuda = CudaIdle /\ tr = TrIdle /\ em = EmIdle
    /\ \E C \in SubMatricesC, I \in SubIndexLists(MaxVlen), J \in SubIndexLists(MaxVdim) :
        \E A \in SubMatricesA(I.n, J.n), M \in SubMasks(I.n, J.n),
           ntasks \in 1..IMAX(1, IMIN(MaxTasks, J.n)) :
            sub = SubEntry(C, I, J, M, A, ntasks)

NextSub == (\E taskid \in 0..(MaxTasks - 1) : SubTask(taskid)) \/ SubWrapup

SpecSub == InitSub /\ [][NextSub]_vars

(***************************************************************************)
(*                     Claims about GB_AxB_saxpy5_jit                      *)
(***************************************************************************)

\* C1: every failure of the dispatch other than memory exhaustion (the
\* source file cannot be opened, the artifact cannot be loaded, the entry
\* symbol is missing) makes it return GrB_NO_VALUE, never a hard error.
C1_FailurePuntsToGeneric ==
    \A t \in Threads :
        (th[t].pc = "done" /\ th[t].fail \in {"fopen", "dlopen", "dlsym"})
            => th[t].info = "GrB_NO_VALUE"

\* C2 as stated: over the dispatches of one problem at most one
\* compile-or-load sequence is ever started.
C2_AtMostOneSequence == \A p \in Problems : nseq[p] <= 1

\* C2 as amended: a compile-or-load sequence is started only by a dispatch
\* that began before the kernel was registered; a dispatch that begins once
\* the kernel is registered takes the first registered pointer from
\* GB_jitifyer_lookup, goes straight to the call and touches no file.
C2_NoSequenceOnceRegistered ==
    /\ \A p \in Problems : nseqreg[p] = 0
    /\ \A t \in Threads :
          (th[t].pc # "idle" /\ th[t].reg0) =>
              /\ th[t].hit
              /\ ~th[t].fs
              /\ th[t].pc \in {"call", "done"}
              /\ th[t].handles = <<>>
              /\ th[t].dl_function = cache[Key(Enc(t))][1]

\* C2 witness: a dispatch served from the cache and called, after one failed
\* and one successful compile-or-load sequence of the same problem.
C2_Witness ==
    \E t \in Threads :
        /\ th[t].pc = "done" /\ th[t].hit /\ th[t].called
        /\ nseq[th[t].p] = 2

\* An artifact agrees with the request: version, introspection symbol, the
\* five definitions, the monoid identity and terminal.
ArtifactMatches(a) ==
    /\ a.ver = "cur"
    /\ a.query
    /\ \A k \in 0..4 : a.defn[k] = ReqDefn[k]
    /\ a.idterm

Registered(t) == cache[Key(Enc(t))]

C12_NoTornRead ==
    \A t \in ConcThreads :
        /\ ~th[t].torn
        /\ \A n \in 1..Len(th[t].handles) : th[t].handles[n].art # TornArtifact

\* The failures of the compile-or-load sequence: the source file cannot be
\* written, the artifact cannot be loaded, the entry symbol is missing.
CompileLoadFailures == {"fopen", "dlopen", "dlsym"}

\* C13: a dispatch that fails in the compile-or-load sequence (source write
\* failure, artifact load failure, missing entry symbol) has registered
\* nothing: it missed the cache, none of its library handles is registered,
\* every library it opened is closed again, and, when it is the only thread
\* that dispatches, the cache still has no entry for the problem, so that a
\* lookup of the problem misses.
C13_FailureInsertsNothing ==
    \A t \in Threads :
        (th[t].pc = "done" /\ th[t].fail \in CompileLoadFailures) =>
            /\ ~th[t].hit /\ ~th[t].called
            /\ \A n \in 1..Len(th[t].handles) :
                    /\ ~th[t].handles[n].registered
                    /\ th[t].handles[n].closes = 1
            /\ Cardinality(Threads) = 1 =>
                    /\ Len(Registered(t)) = 0
                    /\ CacheMiss(GB_jitifyer_lookup(Key(Enc(t))))

\* C13 witness: the dispatch after a failed one missed the cache, went
\* through the compile-or-load sequence again and failed as well: the
\* compiler left no artifact to load.
C13_Witness ==
    \E t \in Threads :
        /\ th[t].pc = "done" /\ th[t].fail = "dlopen" /\ th[t].compiled
        /\ nseq[th[t].p] = 2
        /\ Len(Registered(t)) = 0

C15_NotJittable ==
    [][\A t \in Threads :
          (th[t].pc = "idle" /\ th'[t].pc # "idle"
            /\ GB_encodify_mxm(th'[t].p).hash = UINT64_MAX) =>
                /\ th'[t] = [Idle EXCEPT !.p = th'[t].p, !.pc = "done",
                                         !.info = "GrB_NO_VALUE", !.fail = "nojit"]
                /\ ~th'[t].hit /\ ~th'[t].fs /\ ~th'[t].called
                /\ th'[t].handles = <<>> /\ th'[t].dl_function = NullFn
                /\ cache' = cache /\ lib' = lib /\ srcfile' = srcfile
                /\ nseq' = nseq]_vars

\* C15 witness: a problem that is not jittable was dispatched while the
\* cache holds a kernel and the kernel folder its source.
C15_Witness ==
    \E t \in Threads :
        /\ th[t].pc = "done" /\ th[t].fail = "nojit"
        /\ \E k \in Keys : Len(cache[k]) > 0
        /\ \E k \in Kernels : srcfile[k] = "complete"

\* Two requests are the same logical problem: the same semiring and types,
\* flags and storage formats, wherever their objects lie.
SameProblem(r1, r2) ==
    /\ r1.semiring = r2.semiring
    /\ r1.flipxy = r2.flipxy
    /\ r1.A_sparsity = r2.A_sparsity
    /\ r1.B_sparsity = r2.B_sparsity

C24_HandlesClosedOnce ==
    \A t \in Threads :
        \A n \in 1..Len(th[t].handles) :
            LET h == th[t].handles[n]
            IN  /\ h.closes <= 1
                /\ h.registered => h.closes = 0
                /\ n < th[t].dl_handle => h.closes = 1
                /\ th[t].pc = "done" => (h.registered \/ h.closes = 1)

\* C24 witness: a dispatch returns with two handles: the one of the stale
\* artifact, closed, and the one of the recompiled artifact, registered.
C24_Witness ==
    \E t \in Threads :
        /\ th[t].pc = "done"
        /\ Len(th[t].handles) = 2
        /\ th[t].handles[1].closes = 1 /\ ~th[t].handles[1].registered
        /\ th[t].handles[2].closes = 0 /\ th[t].handles[2].registered

(***************************************************************************)
(*                         Claims about GB_selector                        *)
(***************************************************************************)

\* The result of a call: A itself if in place, C otherwise.
SelResult(s) == IF s.in_place_A THEN s.A ELSE s.C

\* The entries of A that satisfy the operator, in the order A holds them.
Selected(A, opcode, flipij, thunk) ==
    LET Test(e) == IdxUnopTrue(opcode, flipij, e[2], e[1], e[3], thunk)
    IN  SelectSeq(Entries(A), Test)

\* The number of entries of a sequence of entries that lie in vector j.
CountIn(es, j) == Cardinality({n \in 1..Len(es) : es[n][1] = j})

SelSucceeded(path) ==
    sel.pc = "done" /\ sel.path = path /\ sel.info = "GrB_SUCCESS"

\* C4: on the general two-phase path, the entries of the output, read
\* vector by vector in storage order, are exactly the subsequence of the
\* entries of the input that satisfy the predicate, values unchanged, and
\* the output count is the sum of the per-vector counts of phase 1, each of
\* which is the number of entries kept in its vector.
C4_GeneralPathSubsequence ==
    SelSucceeded("general") =>
        LET want == Selected(sel.A0, sel.opcode, sel.flipij, sel.ithunk)
            got == Entries(SelResult(sel))
        IN  /\ got = want
            /\ SelResult(sel).nvals = Len(want)
            /\ Len(got) = SumTo(sel.counts, sel.A0.nvec)
            /\ \A k \in 0..(sel.A0.nvec - 1) :
                    sel.counts[k] = CountIn(want, GBH(sel.A0, k))

C4_Witness ==
    /\ SelSucceeded("general")
    /\ sel.opcode = "VALUELE"
    /\ sel.A_ek_slicing.ntasks = 2
    /\ SelResult(sel).nvals > 1
    /\ SelResult(sel).nvals < sel.A0.nvals
    /\ \E q \in DOMAIN sel.A0.x : sel.A0.x[q] = sel.ythunk

C6_ColumnPathAsGeneral ==
    SelSucceeded("column") =>
        LET got == Entries(sel.C)
        IN  /\ got = Selected(sel.A0, sel.opcode, sel.flipij, sel.ithunk)
            /\ sel.C.nvals = Len(got)
            /\ sel.C.is_hyper => \A k \in 0..(sel.C.nvec - 2) : sel.C.h[k] < sel.C.h[k + 1]
            /\ (sel.A0.vdim = 5 /\ sel.opcode = "COLLE" /\ sel.ithunk = 2) =>
                    (Len(got) = 5 /\ \A n \in 1..Len(got) : got[n][1] \in 0..2)

C6_Witness ==
    /\ SelSucceeded("column")
    /\ sel.A0.vdim = 5 /\ sel.A0.is_hyper
    /\ sel.opcode = "COLLE" /\ sel.ithunk = 2
    /\ sel.C.nvals = 5
    /\ ~sel.C.i_shallow

\* The call into a new matrix C, with one task and no failure.
RunNew(A, opcode, thunk, flipij) ==
    LET s0 == SelEntry(A, opcode, thunk, flipij, FALSE)
    IN  IF use_selector_bitmap(s0) THEN GB_selector_bitmap(s0, FALSE)
        ELSE GB_selector_finalize(
                GB_select_phase2_task(
                    GB_selector_phase1b(
                        GB_select_phase1_merge(
                            GB_select_phase1_task(
                                GB_selector_setup(s0, 1, "none"), 0)),
                        "none"), 0),
                "none")

\* C7: selecting in place on A and selecting into a new C from a copy of A
\* give the same vectors, the same row indices in the same order and the
\* same values.
C7_InPlaceAsNew ==
    (sel.pc = "done" /\ sel.in_place_A /\ sel.info = "GrB_SUCCESS") =>
        LET new == RunNew(sel.A0, sel.opcode, sel.ithunk, sel.flipij).C
        IN  /\ Entries(sel.A) = Entries(new)
            /\ sel.A.iso = new.iso
            /\ new.kind = "sparse" =>
                    /\ sel.A.nvec = new.nvec
                    /\ sel.A.nvals = new.nvals
                    /\ \A k \in 0..sel.A.nvec : sel.A.p[k] = new.p[k]
                    /\ sel.A.is_hyper =>
                            \A k \in 0..(sel.A.nvec - 1) : sel.A.h[k] = new.h[k]

C7_Witness ==
    /\ sel.pc = "done" /\ sel.in_place_A /\ sel.info = "GrB_SUCCESS"
    /\ sel.A0.is_hyper
    /\ sel.A.nvec < sel.A0.nvec
    /\ sel.A.nvals > 0
    /\ sel.A_ek_slicing.ntasks = 2

\* Whether some entry of Ci or Cx has been written.
Written(a) == \E c \in DOMAIN a : a[c] # Uninit

\* C8: on the general path, no phase-2 task writes Ci or Cx before every
\* phase-1 task has counted, the counts in Cp have been cumulatively summed
\* and Ci and Cx have been allocated from the summed total.
C8_Phase2AfterPhase1 ==
    (sel.pc \in {"phase1", "phase1b", "phase2", "finalize"}
        /\ (sel.done2 # {} \/ Written(sel.Ci) \/ (~sel.C_iso /\ Written(sel.Cx)))) =>
        /\ sel.done1 = Tasks(sel)
        /\ sel.merged
        /\ sel.Cp = GB_cumsum(sel.counts, sel.A.nvec)
        /\ {"Ci", "Cx"} \subseteq sel.alloc
        /\ ALen(sel.Ci) = IMAX(SumTo(sel.counts, sel.A.nvec), 1)
        /\ ALen(sel.Cx) = IF sel.C_iso THEN 1 ELSE ALen(sel.Ci)

C8_Witness ==
    /\ sel.pc = "phase2"
    /\ sel.A_ek_slicing.ntasks = 2
    /\ sel.done2 = {1}
    /\ Written(sel.Ci)
    /\ sel.Cp[sel.A.nvec] > 1

\* C9: if an allocation of the call fails, the call returns
\* GrB_OUT_OF_MEMORY with every array it allocated released and no content
\* in C, and for an in-place request A is as it was on entry.
C9_OutOfMemoryReleasesAll ==
    (sel.pc = "done" /\ sel.failed # "none") =>
        /\ sel.info = "GrB_OUT_OF_MEMORY"
        /\ sel.alloc = {}
        /\ sel.C = NoMatrix
        /\ sel.freed = {} /\ sel.overwritten = {}
        /\ sel.in_place_A => sel.A = sel.A0

C9_Witness ==
    /\ sel.pc = "done"
    /\ sel.failed = "Cx"
    /\ sel.in_place_A
    /\ op_is_positional(sel.opcode)
    /\ sel.A0.nvals > 1

\* The arrays of A that a finished in-place call has freed or written over.
Disturbed(s) == s.freed \cup s.overwritten

\* C10: an in-place selection frees an old array of A (vector offsets, row
\* indices, values) only if A owns it; an array that A holds shallow is
\* neither freed nor overwritten.
C10_ShallowPreserved ==
    (sel.pc = "done" /\ sel.in_place_A /\ sel.info = "GrB_SUCCESS") =>
        /\ sel.A0.p_shallow => "Ap" \notin Disturbed(sel)
        /\ sel.A0.h_shallow => "Ah" \notin Disturbed(sel)
        /\ sel.A0.i_shallow => "Ai" \notin Disturbed(sel)
        /\ sel.A0.x_shallow => "Ax" \notin Disturbed(sel)

\* The source is bitmap or as-if-full.
BitmapOrAsIfFull(A) == IF GB_IS_BITMAP(A) THEN TRUE ELSE GB_as_if_full(A)

\* The entries of a bitmap result agree with the selected entries of A: the
\* same positions in the same order, and the same values when C is not iso.
SamePositions(es, fs) ==
    /\ Len(es) = Len(fs)
    /\ \A n \in 1..Len(es) : es[n][1] = fs[n][1] /\ es[n][2] = fs[n][2]

\* C16: when the source is bitmap or as-if-full, the predicate is not
\* NONZOMBIE and the request is not in place, the call takes the bitmap
\* path, evaluates the predicate once per entry of the source and, when it
\* succeeds, its output is bitmap; a NONZOMBIE predicate or an in-place
\* request never takes the bitmap path.
C16_BitmapPath ==
    sel.pc = "done" =>
        /\ (BitmapOrAsIfFull(sel.A0) /\ sel.opcode # "NONZOMBIE" /\ ~sel.in_place_A) =>
                /\ sel.path = "bitmap"
                /\ sel.info = "GrB_SUCCESS" =>
                        /\ sel.C.kind = "bitmap"
                        /\ sel.evals = sel.A0.nvals
        /\ (sel.opcode = "NONZOMBIE" \/ sel.in_place_A) => sel.path # "bitmap"

\* C16, amended: the bitmap path is taken exactly when the request is not
\* in place, the predicate is not NONZOMBIE, the call is not the iso case of
\* a value operator, and the source is bitmap, or as-if-full with a predicate
\* other than DIAG.  The predicate is then evaluated once per entry of the
\* source and the output is bitmap, with the entries of the source that
\* satisfy the predicate.  DIAG on an as-if-full source that is not bitmap
\* takes the sparse path; an iso source with a value operator takes the iso
\* path, with one evaluation.
C16_BitmapPathUnlessDiagOrIso ==
    sel.pc = "done" =>
        LET takes == /\ ~sel.in_place_A
                     /\ sel.opcode # "NONZOMBIE"
                     /\ ~(sel.A0.iso /\ sel.opcode \in ValueOps)
                     /\ IF GB_IS_BITMAP(sel.A0) THEN TRUE
                        ELSE sel.opcode # "DIAG" /\ GB_as_if_full(sel.A0)
        IN  /\ takes <=> sel.path = "bitmap"
            /\ (sel.path = "bitmap" /\ sel.info = "GrB_SUCCESS") =>
                    /\ sel.C.kind = "bitmap"
                    /\ sel.evals = sel.A0.nvals
                    /\ SamePositions(Entries(sel.C),
                            Selected(sel.A0, sel.opcode, sel.flipij, sel.ithunk))
                    /\ sel.C.nvals = Len(Entries(sel.C))
            /\ (sel.A0.iso /\ sel.opcode \in ValueOps) =>
                    sel.path = "iso" /\ sel.evals = 1
            /\ (sel.opcode = "DIAG" /\ ~sel.in_place_A /\ ~GB_IS_BITMAP(sel.A0)) =>
                    sel.path = "general"

\* C16 witness: the bitmap path on a bitmap source with one absent entry,
\* of which TRIU keeps two of the three present ones.
C16_Witness ==
    /\ SelSucceeded("bitmap")
    /\ GB_IS_BITMAP(sel.A0)
    /\ sel.A0.nvals = 3
    /\ sel.C.nvals = 2
    /\ sel.opcode = "TRIU"

\* The result is an empty matrix made anew by GB_new: the iso case whose
\* test fails, and the column selectors that keep nothing.
FreshEmpty(s) ==
    /\ s.path \in {"iso", "column"}
    /\ ~SelResult(s).p_shallow
    /\ SelResult(s).nvals = 0

\* The single stored value of an iso result.
IsoValueOf(s) ==
    IF s.opcode = "VALUEEQ" THEN CastInt16(s.ithunk) ELSE s.A0.x[0]

\* C17: the output is iso exactly when the input is iso or the operator is
\* VALUEEQ; its single stored value is then the thunk cast to the type of A
\* for VALUEEQ, and the stored value of A otherwise.
C17_IsoExactly ==
    (sel.pc = "done" /\ sel.info = "GrB_SUCCESS") =>
        LET R == SelResult(sel)
        IN  /\ R.iso <=> (sel.A0.iso \/ sel.opcode = "VALUEEQ")
            /\ R.iso => R.x[0] = IsoValueOf(sel)

\* C17, amended: the same of every output but the empty matrix that the iso
\* case and the column selectors make anew when nothing is kept, which is not
\* iso.
C17_IsoUnlessFreshEmpty ==
    (sel.pc = "done" /\ sel.info = "GrB_SUCCESS") =>
        LET R == SelResult(sel)
        IN  IF FreshEmpty(sel) THEN ~R.iso
            ELSE /\ R.iso <=> (sel.A0.iso \/ sel.opcode = "VALUEEQ")
                 /\ R.iso => /\ ALen(R.x) >= 1
                             /\ R.x[0] = IsoValueOf(sel)

\* C17 witness: VALUEEQ on a matrix that is not iso has kept entries; the
\* output is iso and holds the thunk, which is not the first value of A.
C17_Witness ==
    /\ SelSucceeded("general")
    /\ ~sel.A0.iso /\ sel.opcode = "VALUEEQ"
    /\ SelResult(sel).iso
    /\ SelResult(sel).nvals >= 1
    /\ SelResult(sel).x[0] = sel.athunk
    /\ sel.A0.x[0] # sel.athunk

\* The positions in the hyperlist of A of the vectors that keep an entry,
\* in order.
KeptVectors(A, want) ==
    SeqOfSet({k \in 0..(A.nvec - 1) : CountIn(want, A.h[k]) > 0})

\* C18: after a selection on the general path from a hypersparse matrix, in
\* place or into a new matrix, the hyperlist of the output holds exactly the
\* vectors of the input that keep an entry, in their order; the vector
\* offsets are compacted to them, each vector spanning the entries it keeps;
\* and the vector count is the number of vectors that are not empty.
C18_HyperlistPruned ==
    (SelSucceeded("general") /\ sel.A0.is_hyper) =>
        LET R == SelResult(sel)
            want == Selected(sel.A0, sel.opcode, sel.flipij, sel.ithunk)
            kept == KeptVectors(sel.A0, want)
        IN  /\ R.is_hyper
            /\ R.nvec = Len(kept)
            /\ R.nvec = sel.C_nvec_nonempty
            /\ \A c \in 0..(R.nvec - 1) :
                    /\ R.h[c] = sel.A0.h[kept[c + 1]]
                    /\ R.p[c + 1] - R.p[c] = CountIn(want, R.h[c])
                    /\ R.p[c] < R.p[c + 1]
            /\ R.p[0] = 0
            /\ R.p[R.nvec] = Len(want)
            /\ R.nvals = Len(want)

\* C18 witness: an in-place selection from a hypersparse matrix of four
\* vectors has emptied two of them, the first among them.
C18_Witness ==
    /\ SelSucceeded("general") /\ sel.A0.is_hyper /\ sel.in_place_A
    /\ sel.A0.nvec = 4
    /\ sel.A.nvec = 2
    /\ sel.A.h[0] # sel.A0.h[0]

\* The entries that the tasks of a slicing visit: task tid goes through the
\* vectors kfirst..klast and, in vector k, through the positions
\* pA..pA_end-1 that GB_get_pA gives it.
Visits(A, sl) ==
    UNION { UNION { { <<tid, k, q>> :
                        q \in GB_get_pA(A, sl, tid, k).pA ..
                              (GB_get_pA(A, sl, tid, k).pA_end - 1) } :
                    k \in sl.kfirst[tid] .. sl.klast[tid] } :
            tid \in 0..(sl.ntasks - 1) }

\* C19: the entry offsets of the tasks of a slicing start at 0, end at the
\* number of entries and do not decrease, so that the ranges of the tasks
\* cover the entries with no gap and no overlap; and a kernel that goes
\* through the slices visits every entry exactly once, in the vector that
\* holds it.
C19_SlicesCoverOnce ==
    (sel.pc \in {"phase1", "phase1b", "phase2", "finalize"}
        /\ "A_ek_slicing" \in sel.alloc) =>
        LET A == sel.A
            sl == sel.A_ek_slicing
            anz == A.p[A.nvec]
            V == Visits(A, sl)
        IN  /\ sl.pstart[0] = 0
            /\ sl.pstart[sl.ntasks] = anz
            /\ \A tid \in 0..(sl.ntasks - 1) : sl.pstart[tid] <= sl.pstart[tid + 1]
            /\ \A q \in 0..(anz - 1) :
                    /\ Cardinality({tid \in 0..(sl.ntasks - 1) :
                            sl.pstart[tid] <= q /\ q < sl.pstart[tid + 1]}) = 1
                    /\ Cardinality({v \in V : v[3] = q}) = 1
            /\ \A v \in V :
                    /\ 0 <= v[3] /\ v[3] < anz
                    /\ A.p[v[2]] <= v[3] /\ v[3] < A.p[v[2] + 1]
                    /\ sl.pstart[v[1]] <= v[3] /\ v[3] < sl.pstart[v[1] + 1]

\* C19 witness: two tasks share a vector: the first ends and the second
\* starts inside it, and the second goes on into the next vector.
C19_Witness ==
    /\ sel.pc = "phase1"
    /\ sel.A_ek_slicing.ntasks = 2
    /\ sel.A_ek_slicing.klast[0] = sel.A_ek_slicing.kfirst[1]
    /\ sel.A.p[sel.A_ek_slicing.kfirst[1]] < sel.A_ek_slicing.pstart[1]
    /\ sel.A_ek_slicing.kfirst[1] < sel.A_ek_slicing.klast[1]
    /\ sel.A.p[sel.A.nvec] = 3

\* The descriptor invariants of a sparse or hypersparse matrix, but for the
\* jumbled flag: offsets from 0 and not decreasing, the entry count equal to
\* the last offset, the hyperlist strictly increasing and in range, the row
\* indices in range.
DescriptorOK(R) ==
    /\ R.nvec >= 0 /\ R.nvec <= R.vdim
    /\ R.p[0] = 0
    /\ \A k \in 0..(R.nvec - 1) : R.p[k] <= R.p[k + 1]
    /\ R.nvals = R.p[R.nvec]
    /\ IF R.is_hyper
       THEN \A k \in 0..(R.nvec - 1) :
                /\ 0 <= R.h[k] /\ R.h[k] < R.vdim
                /\ k + 1 < R.nvec => R.h[k] < R.h[k + 1]
       ELSE R.nvec = R.vdim
    /\ \A q \in 0..(R.nvals - 1) : 0 <= R.i[q] /\ R.i[q] < R.vlen
    /\ R.vlen = sel.A0.vlen /\ R.vdim = sel.A0.vdim

\* C25: every matrix returned with success by the column path or the
\* general path (a new C, or A updated in place) satisfies the descriptor
\* invariants, and its jumbled flag is that of the input.
C25_DescriptorInvariants ==
    (sel.pc = "done" /\ sel.info = "GrB_SUCCESS" /\ sel.path \in {"column", "general"}) =>
        /\ DescriptorOK(SelResult(sel))
        /\ SelResult(sel).jumbled = sel.A0.jumbled

\* C25 witness: NONZOMBIE in place on a jumbled hypersparse matrix with a
\* zombie: the result has the row indices in range and is still jumbled.
C25_Witness ==
    /\ SelSucceeded("general") /\ sel.in_place_A
    /\ sel.A0.is_hyper /\ sel.A0.jumbled /\ sel.A0.nzombies = 1
    /\ sel.A.jumbled
    /\ sel.A.nvals = sel.A0.nvals - 1
    /\ sel.A.nvals >= 2

\* The column j that a column selector looks for.
ColumnJ(s) == IF s.opcode = "COLINDEX" THEN 0 - s.ithunk ELSE s.ithunk

\* The positions of Ap that the column path reads to count the entries of
\* C: Ap [k], Ap [k+1] if the column was found, and Ap [anvec].
ColumnReads(A, f) == {f.k, A.nvec} \cup (IF f.found THEN {f.k + 1} ELSE {})

\* C26: on the column path, a column j below 0 is looked up as k = 0, not
\* found, and a column j at or beyond the number of columns as k = nvec,
\* not found; the offsets read are all inside Ap; when every entry is kept
\* the result is a shallow copy of A, and when none is kept it is an empty
\* matrix with the dimensions of A.
C26_ColumnOutOfRange ==
    SelSucceeded("column") =>
        LET A == sel.A0
            j == ColumnJ(sel)
            f == FindColumn(A, j)
            kept == Selected(A, sel.opcode, sel.flipij, sel.ithunk)
        IN  /\ j < 0 => (f.k = 0 /\ ~f.found)
            /\ j >= A.vdim => (f.k = A.nvec /\ ~f.found)
            /\ ColumnReads(A, f) \subseteq DOMAIN A.p
            /\ Len(kept) = A.nvals => sel.C = GB_shallow_copy(A)
            /\ Len(kept) = 0 =>
                    /\ sel.C.nvals = 0 /\ Entries(sel.C) = <<>>
                    /\ sel.C.vlen = A.vlen /\ sel.C.vdim = A.vdim
                    /\ A.nvals > 0 => sel.C = GB_new_empty(A.vlen, A.vdim)

C26_Witness ==
    /\ SelSucceeded("column")
    /\ sel.opcode = "COLLE" /\ ColumnJ(sel) >= sel.A0.vdim
    /\ ~sel.A0.is_hyper /\ sel.A0.nvals > 1
    /\ sel.C.i_shallow /\ sel.C.nvals = sel.A0.nvals

(***************************************************************************)
(*                  Claims about GB_AxB_dot3_cuda_branch                   *)
(***************************************************************************)

\* A or B has a user-defined type, or is bitmap or full.
CudaUnsupported(A, B) ==
    \/ A.code = "GB_UDT_code" \/ B.code = "GB_UDT_code"
    \/ A.kind \in {"bitmap", "full"} \/ B.kind \in {"bitmap", "full"}

\* C21: GB_AxB_dot3_cuda_branch returns false whenever A or B has a
\* user-defined type or is bitmap or full, whatever the work estimate and
\* the number of GPUs; it returns true only when the number of GPUs to use
\* is positive and none of these holds (and then it does).
C21_RefusesUnsupported ==
    cuda.pc = "done" =>
        /\ CudaUnsupported(cuda.A, cuda.B) => ~cuda.result
        /\ cuda.result => (cuda.ngpus_to_use > 0 /\ ~CudaUnsupported(cuda.A, cuda.B))
        /\ (cuda.ngpus_to_use > 0 /\ ~CudaUnsupported(cuda.A, cuda.B)) => cuda.result
        /\ cuda.ngpus_to_use = GB_ngpus_to_use(CudaWork(cuda.M_nnz, cuda.A, cuda.B), cuda.gpu)

\* C21 witness: the offload is refused for a full B although the work
\* estimate asks for both GPUs.
C21_Witness ==
    /\ cuda.pc = "done" /\ ~cuda.result
    /\ cuda.ngpus_to_use = 2 /\ cuda.gpu.gpu_control = "GxB_DEFAULT"
    /\ cuda.B.kind = "full" /\ cuda.A.kind = "sparse"
    /\ cuda.A.code # "GB_UDT_code" /\ cuda.B.code # "GB_UDT_code"

(***************************************************************************)
(*                        Claims about GB_transpose                        *)
(***************************************************************************)

\* A call of GB_transpose that returned an error.
TrFailed == tr.pc = "done" /\ tr.info # "GrB_SUCCESS"

ShallowIn(H, a) ==
    \/ a = H.p /\ H.p_shallow
    \/ a = H.h /\ H.h_shallow
    \/ a = H.i /\ H.i_shallow
    \/ a = H.x /\ H.x_shallow

\* The headers that are allocated: the input A, and the result.
TrLive == {m \in TrHeaders : tr.hdr[m].state = "live"}

\* C28: a prior array of A is freed only if the transpose is in place and A
\* does not hold it as shallow; A->i is the workspace of the sort only if
\* the transpose is in place and A->i is not shallow, and else is neither
\* written nor given away; an array of A that the result holds is shallow
\* in the result unless the transpose is in place and A owned it; so no
\* array is owned by two matrices and no shallow array of A is freed.
C28_ShallowNeverFreed ==
    tr.pc # "off" =>
        LET H0 == HeaderOf(tr.A)
        IN  /\ \A a \in Held(H0) :
                    tr.heap[a] # "live" => (TrInPlace(tr) /\ ~ShallowIn(H0, a))
            /\ (tr.Ai_written \/ tr.jwork = "Ai") =>
                    (TrInPlace(tr) /\ ~H0.i_shallow)
            /\ (tr.pc = "done" /\ tr.info = "GrB_SUCCESS") =>
                    \A a \in Held(tr.hdr[tr.Chandle]) \cap TrOriginal :
                        ShallowIn(tr.hdr[tr.Chandle], a) =
                            (IF TrInPlace(tr) THEN ShallowIn(H0, a) ELSE TRUE)
            /\ \A m \in TrLive, n \in TrLive :
                    m # n => Owned(tr.hdr[m]) \cap Owned(tr.hdr[n]) = {}

C28_Witness ==
    /\ tr.pc = "done" /\ tr.info = "GrB_SUCCESS"
    /\ tr.mode = "in_place_C" /\ tr.path = "column"
    /\ tr.A.x_shallow /\ ~tr.A.i_shallow /\ ~tr.A.p_shallow
    /\ tr.hdr["A"].x = "Ax" /\ tr.hdr["A"].x_shallow
    /\ tr.hdr["A"].h = "Ai" /\ ~tr.hdr["A"].h_shallow
    /\ tr.heap["Ap"] = "freed" /\ tr.heap["Ax"] = "live" /\ tr.heap["Ai"] = "live"

\* The tasks of the row case, and the indices of the non-empty vectors.
TrTasks == 0..(tr.ntasks - 1)
TrNonEmpty(A) == {j \in 0..(A.vdim - 1) : A.p[j] < A.p[j + 1]}

\* C29: when a sparse 1-by-n matrix is transposed with more than one
\* thread, then whatever the order of the tasks, after the count pass, the
\* cumulative sum and the fill pass Ci is what the single-thread loop
\* builds: the indices of the non-empty vectors of A in increasing order,
\* exactly anz of them; each task writes the range of positions from its
\* Count to the next, and no two tasks write the same position.
C29_ParallelCiAsSequential ==
    /\ tr.pc \in {"fill", "rowend"} =>
            /\ \A t \in tr.done2 : tr.wrote[t] = tr.Count[t]..(tr.Count[t + 1] - 1)
            /\ \A t \in TrTasks, u \in TrTasks :
                    t # u => tr.wrote[t] \cap tr.wrote[u] = {}
            /\ tr.Count[tr.ntasks] = tr.A.nvals
    /\ tr.pc = "rowend" =>
            /\ tr.nth > 1
            /\ tr.Ci = TrFillRange(tr.A.p, Fill(tr.A.nvals, Uninit), 0, tr.A.vdim, 0)
            /\ tr.Ci = Arr(SeqOfSet(TrNonEmpty(tr.A)))
            /\ UNION {tr.wrote[t] : t \in TrTasks} = 0..(tr.A.nvals - 1)
            /\ Cardinality(TrNonEmpty(tr.A)) = tr.A.nvals

C29_Witness ==
    /\ tr.pc = "rowend"
    /\ tr.A = TrExample /\ tr.ntasks = 2 * TasksPerThread
    /\ tr.wrote[2 * TasksPerThread - 1] = {4, 5}
    /\ tr.Ci = Arr(<<0, 3, 4, 9, 15, 16>>)

(***************************************************************************)
(*                   Claims about GB_emult_02_template                     *)
(***************************************************************************)

\* Whether the claim has C(i,j) written for the entry at pA of vector j of A.
EmPresent(j, pA) ==
    LET pB == j * em.A.vlen + em.A.i[pA]
        inB == em.B.kind = "full" \/ em.B.b[pB] = 1
        inM == /\ em.M.kind = "full" \/ em.M.b[pB] = 1
               /\ em.Mask_struct \/ em.M.x[pB] # 0
    IN  inB /\ (em.M.kind = "null" \/ (inM # em.Mask_comp))

\* The positions of vector k of A that a task handles, in A's order.
EmRange(tid, k) ==
    LET r == GB_get_pA(em.A, em.A_ek_slicing, tid, k)
    IN  r.pA..(r.pA_end - 1)

EmWrites(tid, k) == SelectSeq(em.log[tid], LAMBDA e : e[1] = k)

EmFullNoMask == em.B.kind = "full" /\ em.M.kind = "null"

\* C27: a task writes C(i,j) exactly for the entries A(i,j) of its part of a
\* vector for which B(i,j) is present (always, if B is full) and, with a mask,
\* for which (M(i,j) present and true) differs from Mask_comp; the entries
\* kept are written in A's order at consecutive positions from the task's
\* start position for that vector, each with the row index and the value of
\* A(i,j) times B(i,j); when B is full and there is no mask only the value
\* at position pA is written and Ci is left as it was.
C27_WrittenExactlyKept ==
    em.pc \in {"run", "done"} =>
        /\ \A tid \in em.done :
            \A k \in em.A_ek_slicing.kfirst[tid]..em.A_ek_slicing.klast[tid] :
                LET j == GBH(em.A, k)
                    kept == SeqOfSet({q \in EmRange(tid, k) : EmPresent(j, q)})
                    w == EmWrites(tid, k)
                    start == IF EmFullNoMask THEN 0
                             ELSE GB_get_pC(em.Cp, em.Cp_kfirst, em.A_ek_slicing, tid, k)
                IN  /\ Len(w) = Len(kept)
                    /\ \A n \in 1..Len(w) :
                        LET pA == kept[n]
                            pC == IF EmFullNoMask THEN pA ELSE start + n - 1
                            pB == j * em.A.vlen + em.A.i[pA]
                        IN  /\ w[n] = <<k, pA, pC>>
                            /\ em.Ci[pC] = em.A.i[pA]
                            /\ em.Cx[pC] = em.A.x[IF em.A.iso THEN 0 ELSE pA]
                                             * em.B.x[IF em.B.iso THEN 0 ELSE pB]
        /\ EmFullNoMask => em.wroteCi = {} /\ em.Ci = em.A.i
        /\ \A tid \in (0..(em.A_ek_slicing.ntasks - 1)) \ em.done : em.log[tid] = <<>>

\* A complemented valued mask, a vector of A split between two tasks that
\* both wrote entries of it, and an entry of A that was not kept because of
\* the mask although B holds it.
C27_Witness ==
    /\ em.pc = "done"
    /\ em.M.kind = "bitmap" /\ em.B.kind = "bitmap"
    /\ em.Mask_comp /\ ~em.Mask_struct
    /\ \E t1, t2 \in em.done : \E k \in 0..(em.A.nvec - 1) :
        /\ t1 # t2
        /\ EmWrites(t1, k) # <<>> /\ EmWrites(t2, k) # <<>>
    /\ \E t \in em.done : \E k \in 0..(em.A.nvec - 1) : \E q \in EmRange(t, k) :
        LET pB == GBH(em.A, k) * em.A.vlen + em.A.i[q]
        IN  /\ k \in em.A_ek_slicing.kfirst[t]..em.A_ek_slicing.klast[t]
            /\ ~EmPresent(GBH(em.A, k), q)
            /\ em.B.b[pB] = 1 /\ em.M.b[pB] = 1 /\ em.M.x[pB] # 0

(***************************************************************************)
(*                   Claims about GB_subassign_method14b                   *)
(***************************************************************************)

\* The entries (iA, j) of A where the complemented mask is true.
SubActive ==
    { e \in (0..(sub.I.n - 1)) \X (0..(sub.J.n - 1)) :
        /\ \E q \in sub.A.p[e[2]]..(sub.A.p[e[2] + 1] - 1) : sub.A.i[q] = e[1]
        /\ ~\E q \in sub.M.p[e[2]]..(sub.M.p[e[2] + 1] - 1) :
                sub.M.i[q] = e[1] /\ sub.M.x[q] # 0 }

\* The value of A(iA, j).
SubA(e) ==
    sub.A.x[CHOOSE q \in sub.A.p[e[2]]..(sub.A.p[e[2] + 1] - 1) : sub.A.i[q] = e[1]]

\* The position in C of C(I[iA], J[j]), or -1.
SubPosition(e) == SubFind(sub.C_in, GB_ijlist(sub.I, e[1]), GB_ijlist(sub.J, e[2]))

SubPositions == 0..(sub.C_in.nvals - 1)

\* The tasks that have run and were ok handled these vectors of A.
SubHandled == { e \in SubActive : \E t \in sub.done :
                    sub.task_ok[t] /\ e[2] \in SubKfirst(sub, t)..SubKlast(sub, t) }

SubAllPending == UNION { {sub.Pending[t][n] : n \in 1..Len(sub.Pending[t])} :
                            t \in 0..(sub.ntasks - 1) }

\* C30: an entry of C that is not at (I[iA],J[j]) for an entry of A where the
\* complemented mask is true is left as it was, a live entry live and a zombie
\* a zombie; an entry of A with the complemented mask true that C does not
\* hold is inserted at (I[iA],J[j]) as a pending tuple; one that C holds
\* becomes accum (C,A), or is brought back with the value of A if it was a
\* zombie; no live entry becomes a zombie.
C30_MergeOfSAndA ==
    sub.pc \in {"run", "wrapup", "done"} =>
        /\ \A pC \in SubPositions :
            /\ ~GB_IS_ZOMBIE(sub.C_in.i[pC]) => ~GB_IS_ZOMBIE(sub.C.i[pC])
            /\ (~\E e \in SubActive : SubPosition(e) = pC) =>
                    /\ sub.C.i[pC] = sub.C_in.i[pC]
                    /\ sub.C.x[pC] = sub.C_in.x[pC]
        /\ \A e \in SubHandled :
            LET pC == SubPosition(e) IN
            IF pC < 0
            THEN <<GB_ijlist(sub.I, e[1]), GB_ijlist(sub.J, e[2]), SubA(e)>>
                    \in SubAllPending
            ELSE IF GB_IS_ZOMBIE(sub.C_in.i[pC])
            THEN /\ sub.C.i[pC] = GB_FLIP(sub.C_in.i[pC])
                 /\ sub.C.x[pC] = SubA(e)
            ELSE /\ sub.C.i[pC] = sub.C_in.i[pC]
                 /\ sub.C.x[pC] = sub.C_in.x[pC] + SubA(e)
        /\ \A t \in SubAllPending :
            \E e \in SubActive :
                /\ SubPosition(e) < 0
                /\ t = <<GB_ijlist(sub.I, e[1]), GB_ijlist(sub.J, e[2]), SubA(e)>>
        /\ sub.C.p = sub.C_in.p

\* The method ran to its end with I a list in reverse: a zombie of C was
\* brought back, a live entry was accumulated, an entry was inserted, and
\* an entry of A that C holds was left out because of the mask.
C30_Witness ==
    /\ sub.pc = "done" /\ sub.info = "GrB_SUCCESS"
    /\ sub.I.kind = "LIST" /\ sub.ntasks > 1
    /\ \E e \in SubActive :
        SubPosition(e) >= 0 /\ GB_IS_ZOMBIE(sub.C_in.i[SubPosition(e)])
    /\ \E e \in SubActive :
        SubPosition(e) >= 0 /\ ~GB_IS_ZOMBIE(sub.C_in.i[SubPosition(e)])
    /\ sub.C_Pending # <<>>
    /\ \E e \in (0..(sub.I.n - 1)) \X (0..(sub.J.n - 1)) :
        /\ e \notin SubActive
        /\ SubPosition(e) >= 0
        /\ \E q \in sub.A.p[e[2]]..(sub.A.p[e[2] + 1] - 1) : sub.A.i[q] = e[1]

=========================================================================
